---- MODULE Spec2Model ----
(***************************************************************************)
(* SoloMiner: the Stratum v1 client (solominer/stratum.py) and the mining  *)
(* engine (solominer/engine.py) as a state machine.                        *)
(*                                                                         *)
(* Threads of the program: the caller of start()/stop() ("main"), one      *)
(* receive thread and one keepalive thread per StratumClient, the mining   *)
(* workers, and the reconnect timers.  The pool and the network are the    *)
(* environment: the pool writes any line of the alphabet at any time, and  *)
(* the link may break at any time.                                         *)
(*                                                                         *)
(* JSON scalars are kept as their source tokens ("null", "true", "4",      *)
(* "'e1'" for the string e1), so that Python's truthiness, str() and       *)
(* isinstance() are computed as the code computes them.                    *)
(***************************************************************************)
EXTENDS Integers, Sequences, FiniteSets, TLC

VARIABLES
    cl,      \* cl[c]: the fields of StratumClient object c
    net,     \* net[c]: the TCP link of connection c and the lines the pool may still write
    recvT,   \* recvT[c]: the receive thread of client c (position, line buffer)
    kaT,     \* kaT[c]: the keepalive thread of client c
    eng,     \* the fields of the MiningEngine
    mainT,   \* the thread that calls start() and stop()
    wk,      \* wk[w]: mining worker thread w
    tm,      \* tm[k]: reconnect timer k
    lg,      \* lg[c]: history of connection c (requests written, statuses reported, callbacks)
    miner,   \* the MetalMiner, the job it searches and its last search call
    lk       \* lk[t]: the locks thread t holds and the code it is in

vars == <<cl, net, recvT, kaT, eng, mainT, wk, tm, lg, miner, lk>>

engineVars == <<cl, net, recvT, kaT, eng, mainT, wk, tm, lg, lk>>

----------------------------------------------------------------------------
(* Bounds of the model *)

MaxConn == 3        \* StratumClient objects created in one behaviour
MaxId == 4          \* request ids used on one connection
MaxLines == 3       \* lines the pool writes in one behaviour
MaxShares == 2      \* winners the kernel reports in one behaviour
MaxTimers == 2      \* reconnect timers started in one behaviour
MaxWorkers == 2      \* worker threads created in one behaviour
MaxStarts == 2      \* start() calls that take effect in one behaviour
TickStep == 61      \* seconds of wall-clock time one Tick lets pass

(* Program constants *)

KEEPALIVE_INTERVAL == 60
INACTIVITY_TIMEOUT == 120
DEFAULT_EXTRANONCE2_SIZE == 4

Conns == 1..MaxConn
Workers == 1..MaxWorkers
Timers == 1..MaxTimers

None == "<None>"    \* Python None

----------------------------------------------------------------------------
(* JSON values, as the code sees them after json.loads *)

StrToks == {"''", "'e1'", "'e2'", "'msg'", "'host'", "'other'"}
IntToks == {"0", "4", "8", "20"}

JVal(isList, toks) == [isList |-> isList, toks |-> toks]
JScalar(tok) == JVal(FALSE, <<tok>>)
JList(toks) == JVal(TRUE, toks)
JNull == JScalar("null")

\* bool(x) of one scalar token; "[..]" stands for a non-empty nested array
TokTruthy(tok) == tok \notin {"null", "false", "0", "''"}

\* bool(v): an empty list and the falsy scalars are falsy
Truthy(v) == IF v.isList THEN Len(v.toks) > 0 ELSE TokTruthy(v.toks[1])

\* x is None
TokIsNone(tok) == tok = "null"

\* len(x) is defined: None, numbers and booleans have no len()
TokHasLen(tok) == tok \notin IntToks \cup {"null", "true", "false"}

\* isinstance(x, str)
TokIsStr(tok) == tok \in StrToks

\* str(x)
PyStr(tok) ==
    CASE tok = "''" -> ""
      [] tok = "'e1'" -> "e1"
      [] tok = "'e2'" -> "e2"
      [] tok = "'msg'" -> "msg"
      [] tok = "'host'" -> "host"
      [] tok = "'other'" -> "other"
      [] tok = "'j1'" -> "j1"
      [] tok = "'j2'" -> "j2"
      [] tok = "true" -> "True"
      [] tok = "false" -> "False"
      [] tok = "null" -> "None"
      [] OTHER -> tok

\* int(x) succeeds on numbers, booleans and digit strings
IntParses(tok) == tok \in IntToks \cup {"true", "false"}

IntOf(tok) ==
    CASE tok = "0" -> 0
      [] tok = "4" -> 4
      [] tok = "8" -> 8
      [] tok = "20" -> 20
      [] tok = "true" -> 1
      [] OTHER -> 0

\* float(x) of a set_difficulty parameter, kept as its decimal rendering
FloatStr(tok) ==
    CASE tok = "0" -> "0.0"
      [] tok = "4" -> "4.0"
      [] tok = "8" -> "8.0"
      [] tok = "20" -> "20.0"
      [] OTHER -> "1.0"

----------------------------------------------------------------------------
(* Lines on the wire, pool to client.  json = FALSE is a line json.loads    *)
(* rejects; method = None is a message without "method"; id = 0 is a        *)
(* message without "id"; idHashable = FALSE is an "id" that is a JSON array  *)
(* or object.                                                               *)

Line(method, id, params, result, error) ==
    [json |-> TRUE, method |-> method, id |-> id, idHashable |-> TRUE,
     params |-> params, result |-> result, error |-> error]

Garbage == [Line(None, 0, <<>>, JNull, JNull) EXCEPT !.json = FALSE]

Notification(method, params) == Line(method, 0, params, JNull, JNull)
Response(id, result, error) == Line(None, id, <<>>, result, error)

\* params of a well-formed mining.notify: job_id, prevhash, coinb1, coinb2,
\* merkle_branch, version, nbits, ntime, clean_jobs
NotifyParams(job_id) ==
    <<job_id, "'00..'", "'01'", "'02'", "[]", "'20000000'", "'1d00ffff'", "'5f5e100f'", "true">>

JobIds == {"'j1'", "'j2'"}

\* results a pool answers with
SubResult3 == JList(<<"[..]", "'e1'", "8">>)       \* [subs, extranonce1, extranonce2_size]
SubResult2 == JList(<<"[..]", "'e2'">>)            \* two fields only
SubResultNoEn1 == JList(<<"[..]", "null", "4">>)   \* extranonce1 missing
SubResultEmptyEn1 == JList(<<"[..]", "''">>)       \* extranonce1 empty
SubResultShort == JList(<<"[..]">>)                \* one field
JTrue == JScalar("true")
JFalse == JScalar("false")
ErrList == JList(<<"20", "'msg'", "null">>)        \* [code, message, traceback]
ErrEmpty == JList(<<>>)                            \* a non-null error that is falsy

HOST == "host"      \* the host given to start()

\* the hosts the user may give to start()
Hosts == {HOST, "other"}

ADDRESS == "addr"   \* the payout address given to start()

\* the addresses the user may give to start(): one that is set, and none
Addresses == {ADDRESS, ""}

\* what a pool answers: (result, error)
Answer(result, error) == [result |-> result, error |-> error]

SubscribeAnswers ==
    {Answer(SubResult3, JNull), Answer(SubResult2, JNull), Answer(SubResultNoEn1, JNull),
     Answer(SubResultEmptyEn1, JNull), Answer(SubResultShort, JNull),
     Answer(JTrue, JNull), Answer(JNull, ErrList), Answer(SubResult3, ErrEmpty)}

BoolAnswers ==
    {Answer(JTrue, JNull), Answer(JFalse, JNull), Answer(JNull, ErrList),
     Answer(JTrue, ErrList), Answer(JTrue, ErrEmpty)}

Responses(ids, answers) == {Response(i, a.result, a.error) : i \in ids, a \in answers}

NotifyLines ==
    {Notification("mining.notify", NotifyParams(j)) : j \in JobIds}
    \cup {Notification("mining.notify", <<"'j1'", "'00..'">>),
          Notification("mining.notify", <<"'j1'", "'00..'", "'01'", "'02'", "null">>)}

SessionLines ==
    {Notification("mining.set_difficulty", <<"8">>),
     Notification("mining.set_difficulty", <<>>),
     Notification("mining.set_extranonce", <<"'e2'", "4">>),
     Notification("mining.set_extranonce", <<"'e2'">>)}

ClientLines ==
    {Line("client.get_version", 20, <<>>, JNull, JNull),
     Notification("client.get_version", <<>>),
     Notification("client.show_message", <<"'msg'">>),
     Notification("client.reconnect", <<"'host'", "4", "0">>),
     Notification("client.reconnect", <<"'other'", "4", "0">>),
     Notification("client.reconnect", <<"''", "4", "0">>),
     Notification("client.reconnect", <<>>)}

OtherLines ==
    {Notification("mining.unknown", <<>>),
     Line(None, 0, <<>>, JNull, JNull),
     Garbage}

Notifications == NotifyLines \cup SessionLines \cup ClientLines \cup OtherLines

----------------------------------------------------------------------------
(* Objects *)

\* StratumJob
Job(job_id, ntime, clean, en1, en2size, c) ==
    [job_id |-> job_id, ntime |-> ntime, clean_jobs |-> clean,
     extranonce1 |-> en1, extranonce2_size |-> en2size, conn |-> c]

NoJob == Job(None, None, FALSE, None, 0, 0)

NoPending == [i \in {} |-> None]

\* StratumClient.__init__
NewClient ==
    [created |-> FALSE, host |-> None, address |-> None, socket |-> FALSE, running |-> FALSE,
     msg_id |-> 0, disconnected |-> FALSE, pending |-> NoPending,
     extranonce1 |-> None, extranonce2_size |-> DEFAULT_EXTRANONCE2_SIZE,
     difficulty |-> "1.0", sendAge |-> 0, recvAge |-> 0, jobs_before_auth |-> 0,
     authorized |-> FALSE, connected |-> FALSE]

\* os.cpu_count() of the machine; 0 stands for the None of a machine whose
\* count is unknown
CpuCount == 2

\* MiningEngine.__init__; cpu_count is what os.cpu_count() returns
NewEngine ==
    [stratum |-> 0, use_gpu |-> FALSE, current_job |-> NoJob, mining_threads |-> {},
     running |-> FALSE, shares_accepted |-> 0, shares_rejected |-> 0,
     shares_submitted |-> 0, jobs_received |-> 0, difficulty |-> "0.0",
     status |-> "Idle", initial_diff_suggested |-> FALSE,
     hashrate_diff_suggested |-> FALSE, suggest_time_set |-> FALSE,
     period_over |-> FALSE,
     reconnect_enabled |-> TRUE, reconnect_params |-> None, reconnect_address |-> None,
     gpu_threads |-> 0, cpu_threads |-> 0, cpu_count |-> CpuCount,
     conns |-> 0, starts |-> 0]

NewLog ==
    [sent |-> <<>>, statuses |-> <<>>, dispatched |-> {}, on_disconnect |-> 0,
     on_authorized |-> <<>>, on_job |-> 0, en1_assigned |-> <<>>, on_error |-> 0]

\* The state the handlers read and write, threaded through a handler's calls.
\* ovf records that a call chain went past a bound of the model.
\* next names what the calling thread still has to do when the call returns.
World ==
    [cl |-> cl, eng |-> eng, lg |-> lg, wk |-> wk, tm |-> tm, net |-> net,
     ovf |-> FALSE, next |-> ""]

\* a mining worker thread (engine.py _mining_loop), not started
NewWorker ==
    [pc |-> "none", idx |-> 0, job |-> NoJob, hd |-> 0, was |-> FALSE, late |-> 0,
     n_threads |-> 0, nonce_offset |-> <<0, 0>>]

\* a threading.Timer(delay, self._reconnect), not started
NewTimer == [pc |-> "unused", c |-> 0, was |-> FALSE, host |-> None, address |-> None]

Min2(a, b) == IF a < b THEN a ELSE b
Max2(a, b) == IF a > b THEN a ELSE b

----------------------------------------------------------------------------
(* MiningEngine: callbacks the Stratum client invokes *)

\* MiningEngine._set_status
EngSetStatus(S, s) == [S EXCEPT !.eng.status = s]

\* every status of the Stratum client taken over as the engine's status
OnStratumStatusAlways(S, status) == EngSetStatus(S, status)

\* MiningEngine._on_stratum_status
OnStratumStatus(S, status) ==
    IF S.eng.status = "Mining" /\ status \in {"Subscribed", "Authorizing", "Authorized"}
    THEN S
    ELSE EngSetStatus(S, status)

\* MiningEngine._on_error
OnError(S) == S

\* threading.Timer(delay, self._reconnect).start()
StartTimer(S) ==
    LET free == {k \in Timers : S.tm[k].pc = "unused"}
    IN IF free = {}
       THEN [S EXCEPT !.ovf = TRUE]
       ELSE LET k == CHOOSE x \in free : \A y \in free : x <= y
            IN [S EXCEPT !.tm[k].pc = "pending"]

\* MiningEngine._on_disconnect
OnDisconnect(S) ==
    IF S.eng.running /\ S.eng.reconnect_enabled /\ S.eng.reconnect_params # None
    THEN StartTimer(EngSetStatus(S, "Reconnecting"))
    ELSE EngSetStatus(S, "Disconnected")

\* MiningEngine._on_difficulty
OnDifficulty(S, diff) == [S EXCEPT !.eng.difficulty = diff]

\* MiningEngine._on_share_result
OnShareResult(S, accepted) ==
    IF accepted
    THEN [S EXCEPT !.eng.shares_accepted = @ + 1]
    ELSE [S EXCEPT !.eng.shares_rejected = @ + 1]

\* the largest of the configured count, the CPU count less one, and 1
NThreadsMax(e) ==
    IF e.use_gpu
    THEN Max2(e.gpu_threads, 1)
    ELSE Max2(Max2(e.cpu_threads, e.cpu_count - 1), 1)

\* n_threads of MiningEngine._on_job; "os.cpu_count() or 4"
NThreads(e) ==
    IF e.use_gpu
    THEN (IF e.gpu_threads > 0 THEN e.gpu_threads ELSE 1)
    ELSE (IF e.cpu_threads > 0 THEN e.cpu_threads
          ELSE Max2(1, (IF e.cpu_count = 0 THEN 4 ELSE e.cpu_count) - 1))

\* t.is_alive()
IsAlive(w) == w.pc \notin {"none", "exited"}

\* MiningEngine._on_job
OnJob(S, job) ==
    LET S1 == [S EXCEPT !.eng.current_job = job,
                        !.eng.jobs_received = @ + 1,
                        !.eng.status = "Mining"]
        alive == {w \in S.eng.mining_threads : IsAlive(S.wk[w])}
        n == NThreads(S.eng)
        free == {w \in Workers : ~IsAlive(S.wk[w])}
        new == {w \in free : Cardinality({v \in free : v < w}) < n}
        idx(w) == Cardinality({v \in new : v < w})
    IN IF alive # {}
       THEN S1
       ELSE IF Cardinality(new) < n
            THEN [S1 EXCEPT !.ovf = TRUE]
            ELSE [S1 EXCEPT !.eng.mining_threads = new,
                            !.wk = [w \in Workers |->
                                      IF w \in new
                                      THEN [NewWorker EXCEPT !.pc = "startup", !.idx = idx(w)]
                                      ELSE @[w]]]

----------------------------------------------------------------------------
(* StratumClient *)

\* StratumClient._set_status
SetStatus(S, c, status) ==
    OnStratumStatus([S EXCEPT !.lg[c].statuses = Append(@, status)], status)

\* StratumClient._handle_disconnect, the part under self._lock
HdLocked(S, c) ==
    [S EXCEPT !.cl[c].disconnected = TRUE,
              !.cl[c].running = FALSE,
              !.cl[c].connected = FALSE,
              !.cl[c].authorized = FALSE]

\* StratumClient._handle_disconnect, after the lock is released
HdCallbacks(S, c, was_connected) ==
    LET S1 == IF was_connected THEN SetStatus(S, c, "Disconnected") ELSE S
    IN OnDisconnect([S1 EXCEPT !.lg[c].on_disconnect = @ + 1])

\* the one-shot flag never read: every call of _handle_disconnect goes on
AlreadyHandledNever(client) == FALSE

\* the test of the one-shot flag in _handle_disconnect
AlreadyHandled(client) == client.disconnected

\* StratumClient._handle_disconnect, called inside a handler
HandleDisconnect(S, c) ==
    IF AlreadyHandled(S.cl[c])
    THEN S
    ELSE HdCallbacks(HdLocked(S, c), c, S.cl[c].connected)

\* StratumClient._send: the call of thread r.by returns
Send(S, c, r) ==
    LET S0 == [S EXCEPT !.net[c].writing = @ \ {r.by}]
    IN IF ~S0.cl[c].socket
       THEN S0
       ELSE IF S0.net[c].link = "up"
            THEN [S0 EXCEPT !.lg[c].sent = Append(@, r), !.cl[c].sendAge = 0]
            ELSE HandleDisconnect(S0, c)

\* a counter that stops at its first value
NextIdRepeats(msg_id) == Max2(msg_id, 1)

\* StratumClient._next_id
NextId(msg_id) == msg_id + 1

\* a request: _next_id, the entry in _pending_requests, then _send
Request(S, c, purpose, method, params, by) ==
    LET id == NextId(S.cl[c].msg_id)
        S1 == [S EXCEPT !.cl[c].msg_id = id,
                        !.cl[c].pending = (id :> purpose) @@ @,
                        !.ovf = @ \/ id > MaxId]
    IN Send(S1, c, [id |-> id, method |-> method, params |-> params,
                    purpose |-> purpose, by |-> by])

\* StratumClient.suggest_difficulty
SuggestDifficulty(S, c, diff, by) ==
    Request(S, c, "suggest_difficulty", "mining.suggest_difficulty", <<diff>>, by)

\* StratumClient.submit_share
SubmitShare(S, c, job_id, extranonce2, ntime, nonce, by) ==
    Request(S, c, "submit", "mining.submit", <<job_id, extranonce2, ntime, nonce>>, by)

\* MiningEngine._on_authorized up to the test that guards the initial suggestion
OnAuthorized(S, success) ==
    IF success
    THEN [(IF S.eng.status # "Mining" THEN EngSetStatus(S, "Authorized") ELSE S)
            EXCEPT !.next = "suggest"]
    ELSE EngSetStatus(S, "Auth Failed")

\* MiningEngine._on_authorized, the initial difficulty suggestion
OnAuthorizedSuggest(S, by) ==
    IF ~S.eng.initial_diff_suggested /\ S.eng.stratum # 0
    THEN [SuggestDifficulty(S, S.eng.stratum, "0.5", by)
            EXCEPT !.eng.initial_diff_suggested = TRUE,
                   !.eng.suggest_time_set = TRUE,
                   !.eng.period_over = FALSE]
    ELSE S

\* the test "self.extranonce1 is not None" that gates a mining.notify
En1IsSet(client) == client.extranonce1 # None

\* StratumJob.__init__ raises on fewer than 8 params
JobParses(params) == Len(params) >= 8

\* StratumClient._handle_server_method
HandleServerMethod(S, c, m) ==
    LET params == m.params
        client == S.cl[c]
    IN CASE m.method = "mining.notify" ->
              IF Len(params) > 4 /\ ~TokHasLen(params[5])
              THEN [S EXCEPT !.next = "raise"]
              ELSE
              IF En1IsSet(client) /\ JobParses(params)
              THEN LET job == Job(PyStr(params[1]), PyStr(params[8]),
                                  IF Len(params) > 8 THEN params[9] = "true" ELSE FALSE,
                                  client.extranonce1, client.extranonce2_size, c)
                       S1 == IF ~client.authorized
                             THEN [S EXCEPT !.cl[c].jobs_before_auth = @ + 1]
                             ELSE S
                   IN OnJob([S1 EXCEPT !.lg[c].on_job = @ + 1], job)
              ELSE S
         [] m.method = "mining.set_difficulty" ->
              IF Len(params) > 0
              THEN OnDifficulty([S EXCEPT !.cl[c].difficulty = FloatStr(params[1])],
                                FloatStr(params[1]))
              ELSE S
         [] m.method = "mining.set_extranonce" ->
              IF Len(params) >= 2
              THEN [S EXCEPT !.cl[c].extranonce1 = PyStr(params[1]),
                             !.cl[c].extranonce2_size = IntOf(params[2]),
                             !.lg[c].en1_assigned = Append(@, "set_extranonce")]
              ELSE S
         [] m.method = "client.get_version" ->
              IF m.id # 0
              THEN Send(S, c, [id |-> m.id, method |-> "result", params |-> <<>>,
                               purpose |-> "reply", by |-> "recv"])
              ELSE S
         [] m.method = "client.reconnect" ->
              LET host == IF Len(params) > 0 THEN params[1] ELSE "null"
              IN IF TokTruthy(host) /\ PyStr(host) # client.host
                 THEN S
                 ELSE [S EXCEPT !.next = "disconnect"]
         [] OTHER -> S

\* the test "if error:" of the response handlers
IsError(error) == Truthy(error)

\* StratumClient._handle_subscribe_response up to the Subscribed status
HandleSubscribeResponse(S, c, result, error) ==
    LET failed(T) == SetStatus(T, c, "Subscribe Failed")
        r == result.toks
        n == Len(r)
        en1 == IF n >= 3
               THEN (IF ~TokIsNone(r[2]) THEN PyStr(r[2]) ELSE "")
               ELSE (IF TokIsStr(r[2]) THEN PyStr(r[2]) ELSE "")
        en2size == IF n >= 3
                   THEN (IF ~TokIsNone(r[3]) THEN IntOf(r[3]) ELSE DEFAULT_EXTRANONCE2_SIZE)
                   ELSE DEFAULT_EXTRANONCE2_SIZE
        S1 == [S EXCEPT !.cl[c].extranonce1 = en1,
                        !.cl[c].extranonce2_size = en2size,
                        !.lg[c].en1_assigned = Append(@, "subscribe")]
    IN IF IsError(error)
       THEN OnError(failed(S))
       ELSE IF ~Truthy(result) \/ ~result.isList
            THEN OnError(failed(S))
            ELSE IF n < 2
                 THEN failed(S)
                 ELSE IF en1 = ""
                      THEN failed(S1)
                      ELSE [SetStatus(S1, c, "Subscribed") EXCEPT !.next = "authorize"]

\* worker_str: "address.worker", or the worker name alone when no address is set
WorkerStr(client) == IF client.address # "" THEN "address.worker" ELSE "worker"

\* StratumClient._handle_subscribe_response, "Step 2: Authorize"
SendAuthorize(S, c, by) ==
    SetStatus(Request(S, c, "authorize", "mining.authorize", <<WorkerStr(S.cl[c]), "x">>, by),
              c, "Authorizing")

\* the callback self.on_authorized(flag)
CallOnAuthorized(S, c, flag) ==
    OnAuthorized([S EXCEPT !.lg[c].on_authorized = Append(@, flag)], flag)

\* StratumClient._handle_authorize_response
HandleAuthorizeResponse(S, c, result, error) ==
    IF IsError(error)
    THEN CallOnAuthorized(
             SetStatus([S EXCEPT !.cl[c].authorized = FALSE], c, "Auth Failed"), c, FALSE)
    ELSE LET ok == Truthy(result)
             S1 == [S EXCEPT !.cl[c].authorized = ok]
         IN CallOnAuthorized(
                SetStatus(S1, c, IF ok THEN "Authorized" ELSE "Auth Failed"), c, ok)

\* "accepted" of StratumClient._handle_submit_response
Accepted(result, error) == Truthy(result) /\ ~IsError(error)

\* StratumClient._handle_submit_response
HandleSubmitResponse(S, c, result, error) == OnShareResult(S, Accepted(result, error))

\* the entry left in the table when its response arrives
PendingKept(pending, id) == pending

\* self._pending_requests.pop(msg_id, None)
PendingPop(pending, id) == [i \in DOMAIN pending \ {id} |-> pending[i]]

\* the handler _handle_response selects for a purpose
Dispatch(purpose) == purpose

\* StratumClient._handle_response
HandleResponse(S, c, m) ==
    IF ~m.idHashable
    THEN [S EXCEPT !.next = "raise"]
    ELSE
    IF m.id \notin DOMAIN S.cl[c].pending
    THEN S
    ELSE LET purpose == S.cl[c].pending[m.id]
             S1 == [S EXCEPT !.cl[c].pending = PendingPop(@, m.id),
                             !.lg[c].dispatched = @ \cup {<<m.id, Dispatch(purpose)>>}]
         IN CASE Dispatch(purpose) = "subscribe" ->
                   HandleSubscribeResponse(S1, c, m.result, m.error)
              [] Dispatch(purpose) = "authorize" ->
                   HandleAuthorizeResponse(S1, c, m.result, m.error)
              [] Dispatch(purpose) = "submit" ->
                   HandleSubmitResponse(S1, c, m.result, m.error)
              [] OTHER -> S1

\* one line of StratumClient._recv_loop: json.loads, then _handle_message
HandleMessage(S, c, m) ==
    IF ~m.json
    THEN S
    ELSE IF m.method # None
         THEN HandleServerMethod(S, c, m)
         ELSE IF m.id # 0
              THEN HandleResponse(S, c, m)
              ELSE S

----------------------------------------------------------------------------
(* Connecting and disconnecting *)

\* StratumClient.disconnect
Disconnect(S, c) ==
    SetStatus([S EXCEPT !.cl[c].running = FALSE,
                        !.cl[c].connected = FALSE,
                        !.cl[c].authorized = FALSE,
                        !.cl[c].socket = FALSE], c, "Disconnected")

\* StratumClient._reset_state on a client made by StratumClient.__init__
ResetState(client) ==
    [client EXCEPT !.socket = FALSE, !.running = FALSE, !.disconnected = FALSE,
                   !.extranonce1 = None, !.extranonce2_size = DEFAULT_EXTRANONCE2_SIZE,
                   !.difficulty = "1.0", !.authorized = FALSE, !.connected = FALSE,
                   !.pending = NoPending, !.msg_id = 0, !.jobs_before_auth = 0]

\* the lines the pool has yet to write: earlier connections are closed when a
\* new one is made, and what they did not carry the new one may
LinesLeft(S) == IF S.eng.conns = 0 THEN MaxLines ELSE S.net[S.eng.conns].lines

\* MiningEngine._connect_stratum: the new StratumClient
NewStratum(S, host, address) ==
    LET c == S.eng.conns + 1
    IN IF c > MaxConn
       THEN [S EXCEPT !.ovf = TRUE]
       ELSE [S EXCEPT !.eng.conns = c, !.eng.stratum = c,
                      !.cl[c] = [NewClient EXCEPT !.created = TRUE, !.host = host,
                                                !.address = address],
                      !.net = [x \in Conns |->
                                 IF x = c THEN [link |-> "none", lines |-> LinesLeft(S),
                                               writing |-> {}]
                                 ELSE [@[x] EXCEPT !.lines = 0]]]

\* StratumClient.connect, the TCP connection made: up to the start of the two threads
ConnectOk(S, c) ==
    LET S1 == SetStatus([S EXCEPT !.cl[c] = ResetState(@)], c, "Connecting")
        S2 == [S1 EXCEPT !.cl[c].socket = TRUE, !.cl[c].running = TRUE,
                         !.cl[c].connected = TRUE, !.cl[c].recvAge = 0,
                         !.cl[c].sendAge = 0,
                         !.net[c].link = "up"]
    IN SetStatus(S2, c, "Connected")

ConnectFailures == {"DNS Failed", "Timeout", "Refused", "Error"}

\* StratumClient.connect, name resolution or the TCP connection failing
ConnectFail(S, c, kind) ==
    LET S1 == SetStatus([S EXCEPT !.cl[c] = ResetState(@)], c, "Connecting")
        S2 == SetStatus(S1, c, kind)
    IN OnError([S2 EXCEPT !.cl[c].socket = FALSE, !.cl[c].connected = FALSE,
                          !.lg[c].on_error = @ + 1])

\* a connect that opens the session with mining.authorize
SendSubscribeAsAuthorize(S, c, by) ==
    Request(SetStatus(S, c, "Subscribing"), c, "authorize", "mining.authorize",
            <<"x">>, by)

\* StratumClient.connect, "Step 1: Subscribe"
SendSubscribe(S, c, by) ==
    Request(SetStatus(S, c, "Subscribing"), c, "subscribe", "mining.subscribe",
            <<"SoloMiner">>, by)

\* Some thread is between two statements of straight-line code, where no
\* measurable time passes; the others are blocked in recv, sleep, join, a kernel
\* dispatch, or the wait for a job.
Busy ==
    \/ mainT.pc = "subscribe"
    \/ \E c \in Conns : recvT[c].pc \in {"lines", "authorize", "suggest", "hd_cb"}
    \/ \E c \in Conns : kaT[c].pc = "hd_cb"
    \/ \E w \in Workers : wk[w].pc \in {"submit", "suggest", "returned"}
    \/ \E k \in Timers : tm[k].pc = "subscribe"

Commit(S) ==
    /\ ~S.ovf
    /\ cl' = S.cl
    /\ eng' = S.eng
    /\ lg' = S.lg
    /\ wk' = S.wk
    /\ tm' = S.tm
    /\ net' = S.net
    /\ miner' = miner
    /\ lk' = lk

StartThreads(c) ==
    /\ recvT' = [recvT EXCEPT ![c] = [pc |-> "recv", buf |-> <<>>, was |-> FALSE, ret |-> FALSE]]
    /\ kaT' = [kaT EXCEPT ![c] = [pc |-> "sleep", was |-> FALSE]]

----------------------------------------------------------------------------
(* The thread that calls start() and stop() *)

\* a start() that never finds the engine running
AlreadyRunningNever(e) == FALSE

\* the test "if self._running" of MiningEngine.start
AlreadyRunning(e) == e.running

\* MiningEngine.start up to self._connect_stratum
StartEngine(S, use_gpu, host, address) ==
    [S EXCEPT !.eng = [@ EXCEPT !.running = TRUE, !.reconnect_enabled = TRUE,
                                !.shares_accepted = 0, !.shares_rejected = 0,
                                !.shares_submitted = 0, !.jobs_received = 0,
                                !.reconnect_params = host,
                                !.reconnect_address = address,
                                !.initial_diff_suggested = FALSE,
                                !.hashrate_diff_suggested = FALSE,
                                !.use_gpu = use_gpu,
                                !.status = "Connecting",
                                !.starts = @ + 1]]

\* MiningEngine.start: the engine is started and the TCP connection is made
Start(use_gpu, host, address) ==
    /\ mainT.pc = "idle"
    /\ ~AlreadyRunning(eng)
    /\ eng.starts < MaxStarts
    /\ LET S1 == NewStratum(StartEngine(World, use_gpu, host, address), host, address)
           c == S1.eng.stratum
       IN /\ ~S1.ovf
          /\ Commit(ConnectOk(S1, c))
          /\ StartThreads(c)
          /\ mainT' = [pc |-> "subscribe", c |-> c, call |-> "start"]

\* MiningEngine.start: the connection cannot be made
StartFails(use_gpu, host, address, kind) ==
    /\ mainT.pc = "idle"
    /\ ~AlreadyRunning(eng)
    /\ eng.starts < MaxStarts
    /\ LET S1 == NewStratum(StartEngine(World, use_gpu, host, address), host, address)
           c == S1.eng.stratum
       IN /\ ~S1.ovf
          /\ Commit(ConnectFail(S1, c, kind))
    /\ mainT' = [mainT EXCEPT !.call = "start"]
    /\ UNCHANGED <<recvT, kaT, miner, lk>>

\* MiningEngine.set_thread_config, called by the user interface at any time
SetThreadConfig(gpu_threads, cpu_threads) ==
    /\ eng' = [eng EXCEPT !.gpu_threads = Max2(0, gpu_threads),
                           !.cpu_threads = Max2(0, cpu_threads)]
    /\ UNCHANGED <<cl, net, recvT, kaT, mainT, wk, tm, lg, miner, lk>>

\* MiningEngine.start called while the engine is running: it logs and returns
StartIgnored(use_gpu, host, address) ==
    /\ mainT.pc = "idle"
    /\ AlreadyRunning(eng)
    /\ mainT' = [mainT EXCEPT !.call = "ignored"]
    /\ UNCHANGED <<cl, net, recvT, kaT, eng, wk, tm, lg, miner, lk>>

\* MiningEngine.start, the end of StratumClient.connect: mining.subscribe is sent
StartSubscribe ==
    /\ mainT.pc = "subscribe"
    /\ Commit(SendSubscribe(World, mainT.c, "main"))
    /\ mainT' = [mainT EXCEPT !.pc = "idle", !.c = 0]
    /\ UNCHANGED <<recvT, kaT, miner, lk>>

\* MiningEngine.stop up to the join of the mining threads
StopBegin ==
    /\ mainT.pc = "idle"
    /\ eng.running
    /\ LET S1 == EngSetStatus([World EXCEPT !.eng.running = FALSE,
                                            !.eng.reconnect_enabled = FALSE], "Stopping")
           S2 == IF eng.stratum # 0
                 THEN [Disconnect(S1, eng.stratum) EXCEPT !.eng.stratum = 0]
                 ELSE S1
       IN Commit(S2)
    /\ mainT' = [pc |-> "join", c |-> 0, call |-> "stop"]
    /\ UNCHANGED <<recvT, kaT, miner, lk>>

\* the threads stop() joins
Joined == {w \in eng.mining_threads : IsAlive(wk[w])}

\* MiningEngine.stop after the joins
StopEnd(S) ==
    EngSetStatus([S EXCEPT !.eng.mining_threads = {}, !.eng.current_job = NoJob], "Idle")

\* MiningEngine.stop: every join returned because its thread ended
StopJoined ==
    /\ mainT.pc = "join"
    /\ Joined = {}
    /\ Commit(StopEnd(World))
    /\ mainT' = [mainT EXCEPT !.pc = "idle", !.c = 0]
    /\ UNCHANGED <<recvT, kaT, miner, lk>>

\* MiningEngine.stop: a join(timeout=5) returned with its thread still alive
StopJoinTimeout ==
    /\ mainT.pc = "join"
    /\ \E w \in Joined : wk[w].pc \in {"startup", "dispatch", "backoff"}
    /\ ~Busy
    /\ Commit(StopEnd(World))
    /\ mainT' = [mainT EXCEPT !.pc = "idle", !.c = 0]
    /\ UNCHANGED <<recvT, kaT, miner, lk>>

----------------------------------------------------------------------------
(* The receive thread of client c: StratumClient._recv_loop *)

AfterLine(buf) == IF buf = <<>> THEN "recv" ELSE "lines"

\* the answers that differ for the handler of a purpose
AnswersFor(purpose) == IF purpose = "subscribe" THEN SubscribeAnswers ELSE BoolAnswers

\* the responses the pool may write on connection c: to a pending request, any
\* answer its handler tells apart; to an id that is not pending, one answer
PoolResponses(c) ==
    UNION {Responses({i}, IF i \in DOMAIN cl[c].pending
                          THEN AnswersFor(cl[c].pending[i])
                          ELSE {Answer(JTrue, JNull)}) : i \in 1..Min2(cl[c].msg_id + 1, MaxId)}

\* a response whose "id" is an array: dict.pop raises TypeError on it
ListIdResponse == [Response(MaxId + 1, JTrue, JNull) EXCEPT !.idHashable = FALSE]

\* the lines the pool may write on connection c
PoolLines(c) == Notifications \cup PoolResponses(c) \cup {ListIdResponse}

Receiving(c) ==
    /\ recvT[c].pc = "recv"
    /\ cl[c].running
    /\ cl[c].socket

\* a call of _handle_disconnect by a thread of its own: the part under the lock
\* is done in this step, the callbacks in the thread's next step
EnterDisconnect(S, c) == IF AlreadyHandled(S.cl[c]) THEN S ELSE HdLocked(S, c)

\* recv returns one line
RecvLine(c, m) ==
    /\ Receiving(c)
    /\ net[c].link = "up"
    /\ net[c].lines > 0
    /\ cl' = [cl EXCEPT ![c].recvAge = 0]
    /\ net' = [net EXCEPT ![c].lines = @ - 1]
    /\ recvT' = [recvT EXCEPT ![c].pc = "lines", ![c].buf = <<m>>]
    /\ UNCHANGED <<kaT, eng, mainT, wk, tm, lg, miner, lk>>

\* recv returns data that brings the buffer past 1 000 000 characters
RecvOverflow(c) ==
    /\ Receiving(c)
    /\ net[c].link = "up"
    /\ net[c].lines > 0
    /\ LET S1 == [World EXCEPT !.cl[c].recvAge = 0, !.net[c].lines = @ - 1]
       IN /\ Commit(EnterDisconnect(S1, c))
          /\ recvT' = [recvT EXCEPT ![c].pc = IF AlreadyHandled(cl[c]) THEN "done" ELSE "hd_cb",
                                    ![c].was = cl[c].connected,
                                    ![c].ret = TRUE]
    /\ UNCHANGED <<kaT, mainT, miner, lk>>

\* recv returns no data, or raises OSError
RecvClosed(c) ==
    /\ Receiving(c)
    /\ net[c].link = "down"
    /\ Commit(EnterDisconnect(World, c))
    /\ recvT' = [recvT EXCEPT ![c].pc = IF AlreadyHandled(cl[c]) THEN "done" ELSE "hd_cb",
                              ![c].was = cl[c].connected,
                              ![c].ret = TRUE]
    /\ UNCHANGED <<kaT, mainT, miner, lk>>

\* the loop ends: _running is false (the socket was closed by disconnect())
RecvStopped(c) ==
    /\ recvT[c].pc = "recv"
    /\ ~cl[c].running
    /\ recvT' = [recvT EXCEPT ![c].pc = "done"]
    /\ UNCHANGED <<cl, net, kaT, eng, mainT, wk, tm, lg, miner, lk>>

\* one buffered line is parsed and handled
HandleLine(c) ==
    /\ recvT[c].pc = "lines"
    /\ recvT[c].buf # <<>>
    /\ LET S1 == HandleMessage(World, c, Head(recvT[c].buf))
           rest == Tail(recvT[c].buf)
           raised == S1.next = "raise"
           enter == /\ S1.next \in {"disconnect", "raise"}
                    /\ raised => S1.cl[c].running
                    /\ ~AlreadyHandled(S1.cl[c])
       IN /\ Commit(IF enter THEN HdLocked(S1, c) ELSE S1)
          /\ recvT' = [recvT EXCEPT
                 ![c].buf = IF raised THEN <<>> ELSE rest,
                 ![c].pc = CASE enter -> "hd_cb"
                             [] raised -> "done"
                             [] S1.next \in {"authorize", "suggest"} -> S1.next
                             [] OTHER -> AfterLine(rest),
                 ![c].was = S1.cl[c].connected,
                 ![c].ret = raised]
    /\ UNCHANGED <<kaT, mainT, miner, lk>>

\* the subscribe handler sends mining.authorize
RecvAuthorize(c) ==
    /\ recvT[c].pc = "authorize"
    /\ Commit(SendAuthorize(World, c, "recv"))
    /\ recvT' = [recvT EXCEPT ![c].pc = AfterLine(recvT[c].buf)]
    /\ UNCHANGED <<kaT, mainT, miner, lk>>

\* the engine's _on_authorized suggests the initial difficulty
RecvSuggest(c) ==
    /\ recvT[c].pc = "suggest"
    /\ Commit(OnAuthorizedSuggest(World, IF eng.stratum = c THEN "recv" ELSE "recv of an earlier client"))
    /\ recvT' = [recvT EXCEPT ![c].pc = AfterLine(recvT[c].buf)]
    /\ UNCHANGED <<kaT, mainT, miner, lk>>

\* _handle_disconnect called by the receive thread: status and on_disconnect
RecvHdCallbacks(c) ==
    /\ recvT[c].pc = "hd_cb"
    /\ Commit(HdCallbacks(World, c, recvT[c].was))
    /\ recvT' = [recvT EXCEPT ![c].pc = IF recvT[c].ret THEN "done" ELSE AfterLine(recvT[c].buf)]
    /\ UNCHANGED <<kaT, mainT, miner, lk>>

----------------------------------------------------------------------------
(* The keepalive thread of client c: StratumClient._keepalive_loop *)

\* a ping that sends mining.subscribe again
KeepaliveResubscribes(S, c) ==
    Request(S, c, "subscribe", "mining.subscribe", <<"SoloMiner">>, "keepalive")

\* the ping of the keepalive loop
KeepaliveRequest(S, c) ==
    Request(S, c, "keepalive", "mining.suggest_difficulty", <<S.cl[c].difficulty>>, "keepalive")

\* "now - self._last_send_time > self.KEEPALIVE_INTERVAL"
SendIdle(client) == client.sendAge > KEEPALIVE_INTERVAL

\* "now - self._last_recv_time > self.INACTIVITY_TIMEOUT"
RecvIdle(client) == client.recvAge > INACTIVITY_TIMEOUT

\* one round of the loop after time.sleep(5)
KaWake(c) ==
    /\ kaT[c].pc = "sleep"
    /\ LET S1 == IF SendIdle(cl[c]) THEN KeepaliveRequest(World, c) ELSE World
           dead == RecvIdle(cl[c])
           enter == dead /\ ~AlreadyHandled(S1.cl[c])
       IN /\ Commit(IF enter THEN HdLocked(S1, c) ELSE S1)
          /\ kaT' = [kaT EXCEPT
                 ![c].pc = CASE enter -> "hd_cb"
                             [] dead -> "done"
                             [] OTHER -> IF S1.cl[c].running THEN "sleep" ELSE "done",
                 ![c].was = S1.cl[c].connected]
    /\ UNCHANGED <<recvT, mainT, miner, lk>>

\* _handle_disconnect called by the keepalive thread: status and on_disconnect
KaHdCallbacks(c) ==
    /\ kaT[c].pc = "hd_cb"
    /\ Commit(HdCallbacks(World, c, kaT[c].was))
    /\ kaT' = [kaT EXCEPT ![c].pc = "done"]
    /\ UNCHANGED <<recvT, mainT, miner, lk>>

----------------------------------------------------------------------------
(* Mining worker w: MiningEngine._mining_loop *)

\* the waits before the loop are over
WorkerStartup(w) ==
    /\ wk[w].pc = "startup"
    /\ ~Busy
    /\ wk' = [wk EXCEPT ![w].pc = "loop"]
    /\ UNCHANGED <<cl, net, recvT, kaT, eng, mainT, tm, lg, miner, lk>>

\* "while self._running" is false
WorkerExit(w) ==
    /\ wk[w].pc = "loop"
    /\ ~eng.running
    /\ wk' = [wk EXCEPT ![w].pc = "exited"]
    /\ UNCHANGED <<cl, net, recvT, kaT, eng, mainT, tm, lg, miner, lk>>

\* the loop reads the current job, builds the header and calls the Search Kernel
WorkerDispatch(w) ==
    /\ wk[w].pc = "loop"
    /\ eng.running
    /\ eng.current_job # NoJob
    /\ wk' = [wk EXCEPT ![w].pc = "dispatch", ![w].job = eng.current_job]
    /\ UNCHANGED <<cl, net, recvT, kaT, eng, mainT, tm, lg, miner, lk>>

\* mine_range_gpu / mine_range_cpu returns None
WorkerNoShare(w) ==
    /\ wk[w].pc \in {"dispatch", "returned"}
    /\ wk' = [wk EXCEPT ![w].pc = "loop"]
    /\ UNCHANGED <<cl, net, recvT, kaT, eng, mainT, tm, lg, miner, lk>>

\* a loop head that goes on whatever the flag is
FlagIgnored(e) == TRUE

\* "while self._running"
FlagSet(e) == e.running

\* the loop head of worker w finds the flag set
WorkerCheck(w) ==
    /\ wk[w].pc = "loop"
    /\ FlagSet(eng)
    /\ wk' = [wk EXCEPT ![w].pc = "job"]
    /\ UNCHANGED <<cl, net, recvT, kaT, eng, mainT, tm, lg, miner, lk>>

\* "if job is None": the worker waits on the job event and goes back to the
\* loop head
WorkerWait(w) ==
    /\ wk[w].pc = "job"
    /\ eng.current_job = NoJob
    /\ wk' = [wk EXCEPT ![w].pc = "loop"]
    /\ UNCHANGED <<cl, net, recvT, kaT, eng, mainT, tm, lg, miner, lk>>

\* the worker read a job and calls the Search Kernel; late counts the calls
\* begun with the flag cleared, up to 2
WorkerBegin(w) ==
    /\ wk[w].pc = "job"
    /\ eng.current_job # NoJob
    /\ wk' = [wk EXCEPT ![w].pc = "dispatch", ![w].job = eng.current_job,
                         ![w].late = IF eng.running THEN @ ELSE Min2(@ + 1, 2)]
    /\ UNCHANGED <<cl, net, recvT, kaT, eng, mainT, tm, lg, miner, lk>>

\* more than HASHRATE_MEASUREMENT_PERIOD seconds have passed since
\* _last_difficulty_suggest_time was set
MeasurementPeriodPasses ==
    /\ ~Busy
    /\ eng.suggest_time_set
    /\ ~eng.period_over
    /\ eng' = [eng EXCEPT !.period_over = TRUE]
    /\ UNCHANGED <<cl, net, recvT, kaT, mainT, wk, tm, lg, miner, lk>>

\* the test that guards the hashrate-based suggestion, read without a lock
TuneDue(e) ==
    /\ ~e.hashrate_diff_suggested
    /\ e.suggest_time_set
    /\ e.period_over

\* the kernel returned, a second has passed since the last hashrate update,
\* the test of the hashrate-based suggestion passes and measured_hr > 0
WorkerHashrateTest(w) ==
    /\ wk[w].pc = "dispatch"
    /\ TuneDue(eng)
    /\ wk' = [wk EXCEPT ![w].pc = "suggest"]
    /\ UNCHANGED <<cl, net, recvT, kaT, eng, mainT, tm, lg, miner, lk>>

\* the suggestion sent whether or not the client is connected
TuneSendsAlways(S) == S.eng.stratum # 0

\* "if self.stratum and self.stratum.connected"
TuneSends(S) == S.eng.stratum # 0 /\ S.cl[S.eng.stratum].connected

\* "self.stratum.suggest_difficulty(optimal_diff)" when connected, then
\* "self._hashrate_diff_suggested = True"
WorkerHashrateSuggest(w) ==
    /\ wk[w].pc = "suggest"
    /\ LET S1 == IF TuneSends(World)
                 THEN SuggestDifficulty(World, eng.stratum, "optimal_diff", "worker")
                 ELSE World
       IN Commit([S1 EXCEPT !.eng.hashrate_diff_suggested = TRUE,
                            !.wk[w].pc = "returned"])
    /\ UNCHANGED <<recvT, kaT, mainT, miner, lk>>

\* the name under which the receive thread of connection c sends
RecvName(c) == IF eng.stratum = c THEN "recv" ELSE "recv of an earlier client"

\* the threads whose next statement is a _send on connection c: a worker
\* submitting a share, the receive thread sending mining.authorize, a receive
\* thread sending the initial suggestion through the engine
AboutToSend(c) ==
    {"worker" : w \in {x \in Workers : wk[x].pc = "submit" /\ eng.stratum = c}}
    \cup {"recv" : x \in {y \in {c} : recvT[y].pc = "authorize"}}
    \cup {RecvName(x) : x \in {y \in Conns : /\ recvT[y].pc = "suggest"
                                             /\ eng.stratum = c
                                             /\ ~eng.initial_diff_suggested}}

\* thread `by` is inside "self._socket.sendall(data.encode())" of _send, which
\* takes no lock
SendBegin(c, by) ==
    /\ cl[c].socket
    /\ by \in AboutToSend(c)
    /\ by \notin net[c].writing
    /\ net' = [net EXCEPT ![c].writing = @ \cup {by}]
    /\ UNCHANGED <<cl, recvT, kaT, eng, mainT, wk, tm, lg, miner, lk>>

\* the hashrate-based difficulty suggestion of a worker
WorkerTune(w) == WorkerHashrateTest(w) \/ WorkerHashrateSuggest(w)

\* mine_range_gpu raises RuntimeError: "except RuntimeError" writes the crash
\* record and starts time.sleep(5)
WorkerDispatchFails(w) ==
    /\ wk[w].pc = "dispatch"
    /\ eng.use_gpu
    /\ wk' = [wk EXCEPT ![w].pc = "backoff"]
    /\ UNCHANGED <<cl, net, recvT, kaT, eng, mainT, tm, lg, miner, lk>>

\* the worker ends on a kernel failure
WorkerBackoffExits(w) ==
    /\ wk[w].pc = "backoff"
    /\ wk' = [wk EXCEPT ![w].pc = "exited"]
    /\ UNCHANGED <<cl, net, recvT, kaT, eng, mainT, tm, lg, miner, lk>>

\* time.sleep(5) is over: back to "while self._running"
WorkerBackoffOver(w) ==
    /\ wk[w].pc = "backoff"
    /\ wk' = [wk EXCEPT ![w].pc = "loop"]
    /\ UNCHANGED <<cl, net, recvT, kaT, eng, mainT, tm, lg, miner, lk>>

\* mine_range_gpu / mine_range_cpu returns a nonce: shares_submitted is counted
WorkerShareFound(w) ==
    /\ wk[w].pc \in {"dispatch", "returned"}
    /\ eng.shares_submitted < MaxShares
    /\ eng' = [eng EXCEPT !.shares_submitted = @ + 1]
    /\ wk' = [wk EXCEPT ![w].pc = "submit"]
    /\ UNCHANGED <<cl, net, recvT, kaT, mainT, tm, lg, miner, lk>>

\* "if self.stratum: self.stratum.submit_share(...)"
WorkerSubmit(w) ==
    /\ wk[w].pc = "submit"
    /\ LET S1 == IF eng.stratum # 0
                 THEN SubmitShare(World, eng.stratum, wk[w].job.job_id, "en2",
                                  wk[w].job.ntime, "nonce", "worker")
                 ELSE World
       IN Commit([S1 EXCEPT !.wk[w].pc = "loop"])
    /\ UNCHANGED <<recvT, kaT, mainT, miner, lk>>

\* a worker whose loop head, job wait and kernel call are steps of their own
WorkerFine(w) ==
    \/ WorkerStartup(w)
    \/ WorkerCheck(w)
    \/ WorkerWait(w)
    \/ WorkerBegin(w)
    \/ WorkerNoShare(w)
    \/ WorkerDispatchFails(w)
    \/ WorkerBackoffOver(w)
    \/ WorkerShareFound(w)
    \/ WorkerSubmit(w)
    \/ WorkerExit(w)

----------------------------------------------------------------------------
(* Reconnect timer k: MiningEngine._reconnect *)

\* MiningEngine._reconnect after it has read self._reconnect_params, up to the
\* new StratumClient of self._connect_stratum(host, ...)
ReconnectBegin(S, host, address) ==
    LET S1 == [EngSetStatus(S, "Reconnecting") EXCEPT !.eng.current_job = NoJob]
        S2 == IF S1.eng.stratum # 0 THEN Disconnect(S1, S1.eng.stratum) ELSE S1
    IN NewStratum(S2, host, address)

\* the timer fires when the engine is not running: _reconnect returns
TimerCancelled(k) ==
    /\ tm[k].pc = "pending"
    /\ ~Busy
    /\ ~eng.running \/ eng.reconnect_params = None
    /\ tm' = [tm EXCEPT ![k].pc = "done"]
    /\ UNCHANGED <<cl, net, recvT, kaT, eng, mainT, wk, lg, miner, lk>>

\* the timer fires: _reconnect finds the engine running and reads the stored
\* host, port, address and worker into its locals
TimerRead(k) ==
    /\ tm[k].pc = "pending"
    /\ ~Busy
    /\ eng.running /\ eng.reconnect_params # None
    /\ tm' = [tm EXCEPT ![k].pc = "reconnect", ![k].host = eng.reconnect_params,
                         ![k].address = eng.reconnect_address]
    /\ UNCHANGED <<cl, net, recvT, kaT, eng, mainT, wk, lg, miner, lk>>

\* _reconnect goes on: the old client is disconnected and a new connection is made
TimerReconnect(k) ==
    /\ tm[k].pc = "reconnect"
    /\ LET S1 == ReconnectBegin(World, tm[k].host, tm[k].address)
           c == S1.eng.stratum
       IN /\ ~S1.ovf
          /\ Commit([ConnectOk(S1, c) EXCEPT !.tm[k].pc = "subscribe", !.tm[k].c = c])
          /\ StartThreads(c)
    /\ UNCHANGED <<mainT, miner, lk>>

\* the timer fires and the new connection cannot be made
TimerReconnectFails(k, kind) ==
    /\ tm[k].pc = "reconnect"
    /\ LET S1 == ReconnectBegin(World, tm[k].host, tm[k].address)
           c == S1.eng.stratum
       IN /\ ~S1.ovf
          /\ Commit([ConnectFail(S1, c, kind) EXCEPT !.tm[k].pc = "done"])
    /\ UNCHANGED <<recvT, kaT, mainT, miner, lk>>

\* the end of StratumClient.connect on the timer's thread
TimerSubscribe(k) ==
    /\ tm[k].pc = "subscribe"
    /\ Commit([SendSubscribe(World, tm[k].c, "timer") EXCEPT !.tm[k].pc = "done"])
    /\ UNCHANGED <<recvT, kaT, mainT, miner, lk>>

----------------------------------------------------------------------------
(* The environment: time and the network *)

AgeCap == INACTIVITY_TIMEOUT + TickStep

\* TickStep seconds pass
Tick ==
    /\ ~Busy
    /\ \E c \in Conns : cl[c].running /\ (cl[c].sendAge < AgeCap \/ cl[c].recvAge < AgeCap)
    /\ cl' = [c \in Conns |->
                IF cl[c].created
                THEN [cl[c] EXCEPT !.sendAge = Min2(@ + TickStep, AgeCap),
                                   !.recvAge = Min2(@ + TickStep, AgeCap)]
                ELSE cl[c]]
    /\ eng' = [eng EXCEPT !.period_over = @ \/ eng.suggest_time_set]
    /\ UNCHANGED <<net, recvT, kaT, mainT, wk, tm, lg, miner, lk>>

\* the pool closes the connection, or the network drops it
LinkDown(c) ==
    /\ net[c].link = "up"
    /\ net' = [net EXCEPT ![c].link = "down"]
    /\ UNCHANGED <<cl, recvT, kaT, eng, mainT, wk, tm, lg, miner, lk>>

----------------------------------------------------------------------------
(* The SHA-256d search kernel (solominer/metal_miner.py)                    *)
(*                                                                          *)
(* A Python integer below 2^33 is kept as the pair <<hi, lo>> of value      *)
(* hi * 65536 + lo, a 256-bit integer as its 32 base-256 digits, most       *)
(* significant first, and a byte string as the sequence of its bytes.       *)

Reverse(s) == [i \in 1..Len(s) |-> s[Len(s) + 1 - i]]

\* s[a:b] of a byte string, indices from 0
Slice(s, a, b) == SubSeq(s, a + 1, b)

Small(n) == <<0, n>>

Plus(x, y) ==
    LET lo == x[2] + y[2]
    IN  <<x[1] + y[1] + (lo \div 65536), lo % 65536>>

Minus(x, y) ==
    LET lo == x[2] - y[2]
    IN  IF lo < 0 THEN <<x[1] - y[1] - 1, lo + 65536>> ELSE <<x[1] - y[1], lo>>

Less(x, y) == x[1] < y[1] \/ (x[1] = y[1] /\ x[2] < y[2])

MinInt(x, y) == IF Less(y, x) THEN y ELSE x

\* x & 0xFFFFFFFF
Mask32(x) == <<x[1] % 65536, x[2]>>

U32Max == <<65535, 65535>>

\* x // n and x * k for a small n and a small k; the product is not masked
DivSmall(x, n) == <<x[1] \div n, ((x[1] % n) * 65536 + x[2]) \div n>>
TimesSmall(x, k) == <<x[1] * k + ((x[2] * k) \div 65536), (x[2] * k) % 65536>>

----------------------------------------------------------------------------
(* The nonce partition of MiningEngine._mining_loop *)

\* partition_size = 0xFFFFFFFF // n_threads
PartitionSize(n_threads) == DivSmall(U32Max, n_threads)

\* random.randint(0, partition_size): both ends included; the values drawn
\* here are the ends, their neighbours and the middle
RandInt(partition_size) ==
    {Small(0), Small(1), DivSmall(partition_size, 2),
     Minus(partition_size, Small(1)), partition_size}

\* (r + thread_idx * partition_size) & 0xFFFFFFFF
NonceOffset(r, thread_idx, partition_size) ==
    Mask32(Plus(r, TimesSmall(partition_size, thread_idx)))

\* the worker read a job: on a job switch it derives its starting nonce from
\* the length of _mining_threads, then calls the Search Kernel
WorkerBeginAt(w) ==
    /\ wk[w].pc = "job"
    /\ eng.current_job # NoJob
    /\ LET n_threads == Max2(1, Cardinality(eng.mining_threads))
           partition_size == PartitionSize(n_threads)
       IN IF eng.current_job.job_id # wk[w].job.job_id
          THEN \E r \in RandInt(partition_size) :
                  wk' = [wk EXCEPT ![w].pc = "dispatch", ![w].job = eng.current_job,
                                   ![w].n_threads = n_threads,
                                   ![w].nonce_offset =
                                       NonceOffset(r, wk[w].idx, partition_size)]
          ELSE wk' = [wk EXCEPT ![w].pc = "dispatch", ![w].job = eng.current_job]
    /\ UNCHANGED <<cl, net, recvT, kaT, eng, mainT, tm, lg, miner, lk>>

\* struct.pack(">I", x) and struct.pack("<I", x)
PackBE(x) == <<x[1] \div 256, x[1] % 256, x[2] \div 256, x[2] % 256>>
PackLE(x) == Reverse(PackBE(x))

\* struct.unpack(">I", b)[0] and struct.unpack("<I", b)[0]
UnpackBE(b) == <<b[1] * 256 + b[2], b[3] * 256 + b[4]>>
UnpackLE(b) == UnpackBE(Reverse(b))

\* a < b for two 256-bit integers
Less256(a, b) == \E i \in 1..32 : a[i] < b[i] /\ \A j \in 1..(i - 1) : a[j] = b[j]

\* int.from_bytes(b, byteorder="little") and n.to_bytes(32, byteorder="big")
IntFromBytesLittle(b) == Reverse(b)
ToBytesBig(n) == n

(* SHA-256 is not unfolded.  Sha256d stands for                             *)
(* sha256(sha256(msg)).digest(): a function of the message that, like the   *)
(* real one, depends on every byte and on the order of the bytes, and whose *)
(* 32 bytes, read as a little-endian integer, begin with 0 to 5 zero bytes. *)
RECURSIVE MixSum(_, _, _)
MixSum(msg, a, b) ==
    IF a = b THEN (msg[a] + 1) * (a * a + 1)
    ELSE MixSum(msg, a, (a + b) \div 2) + MixSum(msg, (a + b) \div 2 + 1, b)

Mix(msg) == MixSum(msg, 1, Len(msg)) % 4093

Sha256d(msg) ==
    LET s == Mix(msg)
        z == s % 6
    IN  [i \in 1..32 |->
            IF i > 32 - z THEN 0
            ELSE IF i = 32 - z THEN 1 + ((s \div 6) % 255)
            ELSE (s * i + 7) % 256]

\* the words state[0..7] of a digest, as the shader holds them (big-endian words)
StateWords(digest) == [j \in 0..7 |-> UnpackBE(Slice(digest, 4 * j, 4 * j + 4))]

\* swap32 and clz of the shader
Swap32(x) == UnpackBE(Reverse(PackBE(x)))

RECURSIVE Clz16(_, _)
Clz16(v, bit) == IF bit = 0 \/ v >= bit THEN 0 ELSE 1 + Clz16(v, bit \div 2)

Clz(x) == IF x[1] # 0 THEN Clz16(x[1], 32768) ELSE 16 + Clz16(x[2], 32768)

\* the header bytes hashed for a nonce by mine_range_cpu
CpuMessage(header_data, nonce) == Slice(header_data, 0, 76) \o PackLE(nonce)

\* header_uints of mine_range_gpu: 20 words unpacked big-endian
HeaderUints(header_data) == [k \in 1..20 |-> UnpackBE(Slice(header_data, 4 * (k - 1), 4 * k))]

\* the bytes of a sequence of big-endian words
WordBytes(words) ==
    [i \in 1..(4 * Len(words)) |-> PackBE(words[(i - 1) \div 4 + 1])[((i - 1) % 4) + 1]]

\* the bytes hashed by one thread of mine_sha256d: words 0..18 of the header,
\* then the nonce as word 19; SHA-256 reads each word big-endian
GpuMessage(header_uints, nonce) == WordBytes(SubSeq(header_uints, 1, 19) \o <<nonce>>)

\* _target_to_le_uints: words[0] holds the most significant four bytes
TargetToLeUints(target_int) ==
    LET target_le == Reverse(ToBytesBig(target_int))
    IN  [k \in 1..8 |-> UnpackLE(Slice(target_le, (8 - k) * 4, (8 - k) * 4 + 4))]

\* the comparison loop of the shader, from word i on
RECURSIVE BelowTargetFrom(_, _, _)
BelowTargetFrom(state, target, i) ==
    IF i > 7 THEN FALSE
    ELSE LET hash_word == Swap32(state[7 - i])
             tgt_word == target[i + 1]
         IN  IF Less(hash_word, tgt_word) THEN TRUE
             ELSE IF Less(tgt_word, hash_word) THEN FALSE
             ELSE BelowTargetFrom(state, target, i + 1)

BelowTarget(state, target) == BelowTargetFrom(state, target, 0)

\* the leading zero bits counted by the shader, from word i on
RECURSIVE LeadingZerosFrom(_, _)
LeadingZerosFrom(state, i) ==
    IF i > 7 THEN 0
    ELSE LET w == Swap32(state[7 - i])
         IN  IF w = <<0, 0>> THEN 32 + LeadingZerosFrom(state, i + 1) ELSE Clz(w)

LeadingZeros(digest) == LeadingZerosFrom(StateWords(digest), 0)

SetMax(S) == IF S = {} THEN 0 ELSE LET x == CHOOSE x \in S : \A y \in S : y <= x IN x

\* the nonce of thread gid (uint arithmetic) and of iteration n of the CPU loop
GpuNonce(base_nonce, gid) == Mask32(Plus(base_nonce, Small(gid)))
CpuNonce(base_nonce, n) == Mask32(Plus(base_nonce, Small(n)))

\* the test of mine_range_cpu on one nonce
CpuWins(header_data, target_int, nonce) ==
    Less256(IntFromBytesLittle(Sha256d(CpuMessage(header_data, nonce))), target_int)

\* the first n of range(count) whose nonce wins, or count
RECURSIVE CpuFirst(_, _, _, _, _)
CpuFirst(header_data, target_int, base_nonce, count, n) ==
    IF n >= count \/ CpuWins(header_data, target_int, CpuNonce(base_nonce, n)) THEN n
    ELSE CpuFirst(header_data, target_int, base_nonce, count, n + 1)

\* the count mine_range_gpu dispatches
GpuCount(base_nonce, count) ==
    LET base == Mask32(base_nonce)
        max_count == Plus(Minus(U32Max, base), Small(1))
    IN  MinInt(Small(count), max_count)[2]

\* what one thread of mine_sha256d computes
GpuDigest(header_data, nonce) == Sha256d(GpuMessage(HeaderUints(header_data), nonce))

GpuWins(header_data, target_int, nonce) ==
    BelowTarget(StateWords(GpuDigest(header_data, nonce)), TargetToLeUints(target_int))

\* inputs of the search: headers of 80 bytes, targets, base nonces, counts
MaxCalls == 2
MaxCount == 3

Headers == {[i \in 1..80 |-> 0], [i \in 1..80 |-> (7 * i) % 256]}

\* the target with `zeros` zero bytes first, then `byte`, then zero bytes
TargetOf(zeros, byte) ==
    [i \in 1..32 |-> IF i <= zeros THEN 0 ELSE IF i = zeros + 1 THEN byte ELSE 0]

\* difficulty_to_target(0): every hash but the largest is below it
AcceptAll == [i \in 1..32 |-> 255]

Targets == {AcceptAll, TargetOf(1, 128), TargetOf(3, 64), TargetOf(32, 0)}

BaseNonces == {<<0, 0>>, <<0, 1>>, <<0, 65535>>, <<256, 0>>, <<65535, 65534>>}

\* the None a search returns, where a nonce is a pair
NoNonce == <<>>

\* engine.miner before start() creates the miner
NoMiner == [exists |-> FALSE]

\* no share was handed to the Stratum client
NoShare == [call |-> 0, nonce_hex |-> <<>>]

\* the threads that call the miner, and a thread that is in no search
KernelWorkers == 1..MaxWorkers
NoSearch == [path |-> "", base_nonce |-> Small(0), count |-> 0]

NewMiner(initialized, header_data, target_int) ==
    [exists |-> TRUE, initialized |-> initialized, use_gpu |-> initialized,
     hashcount |-> 0, best_share_bits |-> 0,
     header_data |-> header_data, target_int |-> target_int,
     calls |-> 0, path |-> "", kernel |-> "", base_nonce |-> Small(0), count |-> 0,
     ret |-> NoNonce, raised |-> FALSE, ran |-> {}, seen |-> {},
     busy |-> [w \in KernelWorkers |-> NoSearch], evaluated |-> 0, taken |-> 0,
     share |-> NoShare]

\* mine_range_cpu adds `count` also when it returns a winner (not the program)
CpuTriedWholeRange(n, count) == count

\* what mine_range_cpu adds to _hashcount when its loop stopped at iteration n
CpuTried(n, count) == IF n < count THEN n + 1 ELSE count

\* mine_range_cpu(header_data, target_int, base_nonce, count), called as `path`
RangeCpu(m, path, base_nonce, count) ==
    LET n == CpuFirst(m.header_data, m.target_int, base_nonce, count, 0)
        found == n < count
        tried == CpuTried(n, count)
    IN  [m EXCEPT !.hashcount = @ + tried,
                  !.evaluated = @ + Cardinality({k \in 0..(count - 1) : k <= n}),
                  !.ret = IF found THEN CpuNonce(base_nonce, n) ELSE NoNonce, !.raised = FALSE,
                  !.calls = @ + 1, !.path = path, !.kernel = "cpu", !.ran = @ \cup {"cpu"},
                  !.base_nonce = base_nonce, !.count = count,
                  !.seen = @ \cup {LeadingZeros(Sha256d(CpuMessage(m.header_data, CpuNonce(base_nonce, k)))) :
                                      k \in 0..(tried - 1)}]

\* a miner exists and the model's bound on calls is not reached
CanCall == miner.exists /\ miner.calls < MaxCalls

MineRangeCpuAs(path, base_nonce, count) ==
    /\ CanCall
    /\ miner' = RangeCpu(miner, path, base_nonce, count)
    /\ UNCHANGED engineVars

MineRangeCpu(base_nonce, count) == MineRangeCpuAs("cpu", base_nonce, count)

\* mine_range_gpu on a miner without Metal
MineRangeGpuFallback(base_nonce, count) ==
    /\ ~miner.initialized
    /\ MineRangeCpuAs("gpu", base_nonce, count)

\* mine_range_gpu: the dispatch completes; winner is the thread whose store to
\* results[1] came last, or NoNonce when no thread stored
RangeGpu(m, base_nonce, count, winner) ==
    LET base == Mask32(base_nonce)
        cnt == GpuCount(base_nonce, count)
        zeros == {LeadingZeros(GpuDigest(m.header_data, GpuNonce(base, gid))) : gid \in 0..(cnt - 1)}
        best_zeros == SetMax(zeros)
    IN  [m EXCEPT !.hashcount = @ + cnt,
                  !.evaluated = @ + Cardinality({GpuNonce(base, gid) : gid \in 0..(cnt - 1)}),
                  !.best_share_bits = Max2(@, best_zeros),
                  !.ret = winner, !.raised = FALSE,
                  !.calls = @ + 1, !.path = "gpu", !.kernel = "gpu", !.ran = @ \cup {"gpu"},
                  !.base_nonce = base_nonce, !.count = count,
                  !.seen = @ \cup zeros]

GpuWinners(m, base_nonce, count) ==
    {GpuNonce(Mask32(base_nonce), gid) : gid \in
        {g \in 0..(GpuCount(base_nonce, count) - 1) :
            GpuWins(m.header_data, m.target_int, GpuNonce(Mask32(base_nonce), g))}}

MineRangeGpu(base_nonce, count) ==
    /\ CanCall
    /\ miner.initialized
    /\ GpuCount(base_nonce, count) > 0
    /\ LET W == GpuWinners(miner, base_nonce, count)
       IN  \E winner \in (IF W = {} THEN {NoNonce} ELSE W) :
               miner' = RangeGpu(miner, base_nonce, count, winner)
    /\ UNCHANGED engineVars

\* mine_range_gpu with nothing to dispatch
MineRangeGpuEmpty(base_nonce, count) ==
    /\ CanCall
    /\ miner.initialized
    /\ GpuCount(base_nonce, count) <= 0
    /\ miner' = [miner EXCEPT !.ret = NoNonce, !.raised = FALSE, !.calls = @ + 1, !.path = "gpu", !.kernel = "gpu",
                              !.base_nonce = base_nonce, !.count = count]
    /\ UNCHANGED engineVars

\* mine_range_gpu: the command buffer ends in MTLCommandBufferStatusError
MineRangeGpuError(base_nonce, count) ==
    /\ CanCall
    /\ miner.initialized
    /\ GpuCount(base_nonce, count) > 0
    /\ miner' = [miner EXCEPT !.ret = NoNonce, !.raised = TRUE, !.calls = @ + 1, !.path = "gpu", !.kernel = "gpu",
                              !.base_nonce = base_nonce, !.count = count]
    /\ UNCHANGED engineVars

GetAndResetHashcount ==
    /\ miner.exists
    /\ miner.hashcount > 0
    /\ miner' = [miner EXCEPT !.hashcount = 0, !.taken = @ + miner.hashcount]
    /\ UNCHANGED engineVars

(* Searches of several threads on one miner.  A search hashes outside       *)
(* _hashcount_lock and then takes the lock once, for its update of the      *)
(* counters: SearchBegin is the call, the Search... actions that follow are *)
(* the locked section and the return.                                       *)
Searching(w) == miner.busy[w].path # ""

Begun == miner.calls + Cardinality({w \in KernelWorkers : Searching(w)})

\* the search of thread w runs the shader
OnGpu(w) == miner.busy[w].path = "gpu" /\ miner.initialized

SearchBegin(w, path, base_nonce, count) ==
    /\ miner.exists
    /\ Begun < MaxCalls
    /\ ~Searching(w)
    /\ miner' = [miner EXCEPT !.busy[w] = [path |-> path, base_nonce |-> base_nonce, count |-> count]]
    /\ UNCHANGED engineVars

SearchCpuEnd(w) ==
    /\ miner.exists
    /\ Searching(w)
    /\ ~OnGpu(w)
    /\ miner' = [RangeCpu(miner, miner.busy[w].path, miner.busy[w].base_nonce, miner.busy[w].count)
                    EXCEPT !.busy[w] = NoSearch]
    /\ UNCHANGED engineVars

SearchGpuEnd(w) ==
    /\ miner.exists
    /\ Searching(w)
    /\ OnGpu(w)
    /\ GpuCount(miner.busy[w].base_nonce, miner.busy[w].count) > 0
    /\ LET W == GpuWinners(miner, miner.busy[w].base_nonce, miner.busy[w].count)
       IN  \E winner \in (IF W = {} THEN {NoNonce} ELSE W) :
               miner' = [RangeGpu(miner, miner.busy[w].base_nonce, miner.busy[w].count, winner)
                            EXCEPT !.busy[w] = NoSearch]
    /\ UNCHANGED engineVars

\* the search returns None without a dispatch, or raises after it: no locked section
SearchGpuNoCount(w) ==
    /\ miner.exists
    /\ Searching(w)
    /\ OnGpu(w)
    /\ \E raised \in BOOLEAN :
          /\ raised <=> GpuCount(miner.busy[w].base_nonce, miner.busy[w].count) > 0
          /\ miner' = [miner EXCEPT !.ret = NoNonce, !.raised = raised, !.calls = @ + 1,
                                    !.path = "gpu", !.kernel = "gpu",
                                    !.base_nonce = miner.busy[w].base_nonce,
                                    !.count = miner.busy[w].count,
                                    !.busy[w] = NoSearch]
    /\ UNCHANGED engineVars

\* base nonces of the concurrent searches
CounterBases == {<<0, 1>>, <<65535, 65534>>}

CounterNext ==
    \/ \E w \in KernelWorkers, path \in {"cpu", "gpu"}, b \in CounterBases, n \in 0..MaxCount :
          SearchBegin(w, path, b, n)
    \/ \E w \in KernelWorkers : SearchCpuEnd(w) \/ SearchGpuEnd(w) \/ SearchGpuNoCount(w)
    \/ GetAndResetHashcount

(* One batch of MiningEngine._mining_loop on the miner: the search on the    *)
(* path the miner's use_gpu selects, then the nonce parameter of the share. *)
HexChars == <<"0", "1", "2", "3", "4", "5", "6", "7", "8", "9", "a", "b", "c", "d", "e", "f">>

\* format(x, "08x") of a u32
Format08x(x) ==
    <<HexChars[(x[1] \div 4096) + 1], HexChars[((x[1] \div 256) % 16) + 1],
      HexChars[((x[1] \div 16) % 16) + 1], HexChars[(x[1] % 16) + 1],
      HexChars[(x[2] \div 4096) + 1], HexChars[((x[2] \div 256) % 16) + 1],
      HexChars[((x[2] \div 16) % 16) + 1], HexChars[(x[2] % 16) + 1]>>

\* the engine renders the result as it is on both paths (not the program)
ActualNonceUnswapped(use_gpu, result) == result

\* actual_nonce of the share: the GPU result byte-swapped, the CPU result as it is
ActualNonce(use_gpu, result) ==
    IF use_gpu THEN UnpackLE(PackBE(result)) ELSE result

\* "Handle found share": the nonce parameter given to submit_share
ShareFound ==
    /\ miner.exists
    /\ miner.calls > 0 /\ miner.share.call # miner.calls
    /\ ~miner.raised /\ miner.ret # NoNonce
    /\ miner' = [miner EXCEPT !.share = [call |-> miner.calls,
                     nonce_hex |-> Format08x(ActualNonce(miner.use_gpu, miner.ret))]]
    /\ UNCHANGED engineVars

\* the engine has no result in hand that it still has to submit
BatchDone == miner.exists /\ (miner.calls = 0 \/ miner.raised \/ miner.ret = NoNonce
                                \/ miner.share.call = miner.calls)

\* "if self.miner and self.miner.use_gpu: result = self.miner.mine_range_gpu(...)"
BatchGpu(b, n) ==
    /\ BatchDone
    /\ miner.use_gpu
    /\ MineRangeGpu(b, n)

BatchGpuEmpty(b, n) ==
    /\ BatchDone
    /\ miner.use_gpu
    /\ MineRangeGpuEmpty(b, n)

BatchGpuError(b, n) ==
    /\ BatchDone
    /\ miner.use_gpu
    /\ MineRangeGpuError(b, n)

\* "else: result = self.miner.mine_range_cpu(...)"
BatchCpu(b, n) ==
    /\ BatchDone
    /\ ~miner.use_gpu
    /\ MineRangeCpu(b, n)

BatchNext ==
    \/ \E b \in BaseNonces, n \in 0..MaxCount :
          BatchGpu(b, n) \/ BatchGpuEmpty(b, n) \/ BatchGpuError(b, n) \/ BatchCpu(b, n)
    \/ ShareFound

KernelNext ==
    \/ \E b \in BaseNonces, n \in 0..MaxCount :
          \/ MineRangeCpu(b, n)
          \/ MineRangeGpuFallback(b, n)
          \/ MineRangeGpu(b, n)
          \/ MineRangeGpuEmpty(b, n)
          \/ MineRangeGpuError(b, n)
    \/ GetAndResetHashcount

----------------------------------------------------------------------------
(* The locks: MiningEngine._job_lock, _stats_lock and _status_lock,         *)
(* MetalMiner._hashcount_lock and StratumClient._lock, all threading.Lock.  *)
(* A function is the sequence of its lock operations and of the callbacks   *)
(* the Stratum client makes into the engine, in program order.              *)

Acq(l) == [op |-> "acq", lock |-> l]
Rel(l) == [op |-> "rel", lock |-> l]
Cb == [op |-> "cb", lock |-> ""]

\* "with self.<l>:" around statements that call nothing
With(l) == <<Acq(l), Rel(l)>>

\* MiningEngine.status and MiningEngine._set_status
StatusOps == With("_status_lock")
EngSetStatusOps == With("_status_lock")

\* MiningEngine._on_stratum_status: reads self.status, then _set_status
OnStratumStatusOps == StatusOps \o EngSetStatusOps

\* StratumClient._set_status: on_status_change(status)
SetStatusOps == <<Cb>> \o OnStratumStatusOps

\* StratumClient._next_id
NextIdOps == With("_lock")

\* MiningEngine._on_disconnect
OnDisconnectOps == EngSetStatusOps

\* _handle_disconnect with its callbacks made inside "with self._lock"
HandleDisconnectLockedOps ==
    <<Acq("_lock")>> \o SetStatusOps \o <<Cb>> \o OnDisconnectOps \o <<Rel("_lock")>>

\* StratumClient._handle_disconnect: the flags under self._lock, then
\* _set_status("Disconnected") and on_disconnect()
HandleDisconnectOps == With("_lock") \o SetStatusOps \o <<Cb>> \o OnDisconnectOps

\* MiningEngine._on_job, _on_difficulty, _on_share_result, _on_authorized
OnJobOps == With("_job_lock") \o With("_stats_lock") \o EngSetStatusOps
OnDifficultyOps == With("_stats_lock")
OnShareResultOps == With("_stats_lock")
OnAuthorizedOps == StatusOps \o EngSetStatusOps \o NextIdOps

\* StratumClient._handle_subscribe_response: status, mining.authorize, status
HandleSubscribeResponseOps == SetStatusOps \o NextIdOps \o SetStatusOps

\* StratumClient._handle_authorize_response: status, on_authorized
HandleAuthorizeResponseOps == SetStatusOps \o <<Cb>> \o OnAuthorizedOps

\* StratumClient.connect and disconnect
ConnectOps == SetStatusOps \o NextIdOps
DisconnectOps == SetStatusOps

\* mine_range_gpu / mine_range_cpu and get_and_reset_hashcount
MineRangeOps == With("_hashcount_lock")
GetAndResetHashcountOps == With("_hashcount_lock")

\* one turn of the loop of MiningEngine._mining_loop: the job, the share
\* difficulty, the search, the hashrate, the suggestion, the share, the
\* test for a stale job
MiningLoopOps ==
    With("_job_lock") \o With("_stats_lock") \o MineRangeOps
        \o GetAndResetHashcountOps \o With("_stats_lock") \o With("_stats_lock")
        \o NextIdOps \o With("_stats_lock") \o With("_stats_lock") \o NextIdOps
        \o With("_job_lock")

\* MiningEngine._reconnect, start and stop
ReconnectOps == EngSetStatusOps \o With("_job_lock") \o DisconnectOps \o ConnectOps
StartOps == EngSetStatusOps \o EngSetStatusOps \o ConnectOps
StopOps == EngSetStatusOps \o DisconnectOps \o EngSetStatusOps

LockThreads == {"recv", "keepalive", "worker", "timer", "ui"}

\* the functions each thread runs
ThreadOps(t) ==
    CASE t = "recv" ->
            {<<Cb>> \o OnJobOps, <<Cb>> \o OnDifficultyOps, <<Cb>> \o OnShareResultOps,
             HandleSubscribeResponseOps, HandleAuthorizeResponseOps, HandleDisconnectOps}
      [] t = "keepalive" -> {NextIdOps, HandleDisconnectOps}
      [] t = "worker" -> {MiningLoopOps, HandleDisconnectOps}
      [] t = "timer" -> {ReconnectOps}
      [] t = "ui" -> {StatusOps, StartOps, StopOps}

\* the locks held after the first k operations of ops, counted
Depth(ops, k) ==
    Cardinality({i \in 1..k : ops[i].op = "acq"}) - Cardinality({i \in 1..k : ops[i].op = "rel"})

\* the stretches of ops that begin and end with no lock held
Fragments(ops) ==
    {SubSeq(ops, p[1], p[2]) :
        p \in {q \in (1..Len(ops)) \X (1..Len(ops)) :
                  /\ q[1] <= q[2]
                  /\ Depth(ops, q[1] - 1) = 0
                  /\ Depth(ops, q[2]) = 0
                  /\ \A k \in q[1]..(q[2] - 1) : Depth(ops, k) > 0}}

ThreadFragments(t) == UNION {Fragments(ops) : ops \in ThreadOps(t)}

\* a thread that is in none of these functions
NoFragment == [frag |-> <<>>, at |-> 1, held |-> {}]

InFragment(t) == lk[t].frag # <<>>
NextOp(t) == lk[t].frag[lk[t].at]
Holder(l) == {t \in LockThreads : l \in lk[t].held}

\* thread t has done its next operation and holds `held`
Advance(t, held) ==
    /\ lk' = [lk EXCEPT ![t] = IF lk[t].at = Len(lk[t].frag)
                                THEN NoFragment
                                ELSE [@ EXCEPT !.at = @ + 1, !.held = held]]
    /\ UNCHANGED <<cl, net, recvT, kaT, eng, mainT, wk, tm, lg, miner>>

\* thread t comes to a stretch of one of its functions
FragmentBegin(t) ==
    /\ ~InFragment(t)
    /\ \E f \in ThreadFragments(t) : lk' = [lk EXCEPT ![t] = [frag |-> f, at |-> 1, held |-> {}]]
    /\ UNCHANGED <<cl, net, recvT, kaT, eng, mainT, wk, tm, lg, miner>>

\* lock.acquire(): the thread waits until no thread holds the lock
Acquire(t) ==
    /\ InFragment(t)
    /\ NextOp(t).op = "acq"
    /\ Holder(NextOp(t).lock) = {}
    /\ Advance(t, lk[t].held \cup {NextOp(t).lock})

\* lock.release()
Release(t) ==
    /\ InFragment(t)
    /\ NextOp(t).op = "rel"
    /\ Advance(t, lk[t].held \ {NextOp(t).lock})

\* the Stratum client calls a callback of the engine
Callback(t) ==
    /\ InFragment(t)
    /\ NextOp(t).op = "cb"
    /\ Advance(t, lk[t].held)

LockNext == \E t \in LockThreads : FragmentBegin(t) \/ Acquire(t) \/ Release(t) \/ Callback(t)

----------------------------------------------------------------------------
(* The whole program *)

InitEngine ==
    /\ cl = [c \in Conns |-> NewClient]
    /\ net = [c \in Conns |-> [link |-> "none", lines |-> 0, writing |-> {}]]
    /\ recvT = [c \in Conns |-> [pc |-> "off", buf |-> <<>>, was |-> FALSE, ret |-> FALSE]]
    /\ kaT = [c \in Conns |-> [pc |-> "off", was |-> FALSE]]
    /\ eng = NewEngine
    /\ mainT = [pc |-> "idle", c |-> 0, call |-> ""]
    /\ wk = [w \in Workers |-> NewWorker]
    /\ tm = [k \in Timers |-> NewTimer]
    /\ lg = [c \in Conns |-> NewLog]
    /\ lk = [t \in LockThreads |-> NoFragment]

\* no miner exists before start() creates one
Init == InitEngine /\ miner = NoMiner

\* the receive thread of client c, the pool writing lines of the set L
RecvNext(c, L) ==
    \/ \E m \in L : RecvLine(c, m)
    \/ RecvClosed(c)
    \/ RecvStopped(c)
    \/ HandleLine(c)
    \/ RecvAuthorize(c)
    \/ RecvSuggest(c)
    \/ RecvHdCallbacks(c)

\* a mining worker while the engine runs
WorkerRun(w) ==
    \/ WorkerStartup(w)
    \/ WorkerDispatch(w)
    \/ WorkerNoShare(w)
    \/ WorkerDispatchFails(w)
    \/ WorkerBackoffOver(w)
    \/ WorkerShareFound(w)
    \/ WorkerSubmit(w)

WorkerNext(w) == WorkerRun(w) \/ WorkerExit(w)

TimerNext(k) ==
    \/ TimerCancelled(k)
    \/ TimerRead(k)
    \/ TimerReconnect(k)
    \/ \E kind \in ConnectFailures : TimerReconnectFails(k, kind)
    \/ TimerSubscribe(k)

(* One engine run on one connection, the pool writing any line of its       *)
(* alphabet and the link breaking at any time; less than KEEPALIVE_INTERVAL *)
(* seconds pass, and no reconnect timer fires.                              *)
NextSession ==
    \/ Start(TRUE, HOST, ADDRESS)
    \/ \E kind \in ConnectFailures : StartFails(TRUE, HOST, ADDRESS, kind)
    \/ StartSubscribe
    \/ \E c \in Conns : RecvNext(c, PoolLines(c))
    \/ \E c \in Conns : RecvOverflow(c)
    \/ \E c \in Conns : KaWake(c)
    \/ \E c \in Conns : LinkDown(c)
    \/ \E w \in Workers : WorkerRun(w)

SpecSession == Init /\ [][NextSession]_vars

\* the lines of a pool that answers the handshake and keeps the session going
TimedLines(c) ==
    Responses({i \in DOMAIN cl[c].pending : cl[c].pending[i] = "subscribe"},
              {Answer(SubResult3, JNull), Answer(SubResult2, JNull), Answer(JNull, ErrList)})
    \cup Responses({i \in DOMAIN cl[c].pending : cl[c].pending[i] # "subscribe"},
                   {Answer(JTrue, JNull), Answer(JNull, ErrList)})
    \cup {Notification("mining.notify", NotifyParams("'j1'")),
          Notification("mining.set_difficulty", <<"8">>),
          Notification("client.reconnect", <<"'host'", "4", "0">>)}

(* One engine run on one connection while time passes: the keepalive ping   *)
(* and the inactivity watchdog act.  No reconnect timer fires.              *)
NextTimed ==
    \/ Start(TRUE, HOST, ADDRESS)
    \/ StartSubscribe
    \/ \E c \in Conns : RecvNext(c, TimedLines(c))
    \/ \E c \in Conns : RecvOverflow(c)
    \/ \E c \in Conns : KaWake(c)
    \/ \E c \in Conns : KaHdCallbacks(c)
    \/ \E c \in Conns : LinkDown(c)
    \/ \E w \in Workers : WorkerRun(w)
    \/ Tick

SpecTimed == Init /\ [][NextTimed]_vars

\* the lines of a pool that accepts the miner and answers its shares
RunLines(c) ==
    Responses({i \in DOMAIN cl[c].pending : cl[c].pending[i] = "subscribe"},
              {Answer(SubResult3, JNull)})
    \cup Responses({i \in DOMAIN cl[c].pending : cl[c].pending[i] # "subscribe"},
                   {Answer(JTrue, JNull), Answer(JNull, ErrList)})
    \cup {Notification("mining.notify", NotifyParams("'j1'"))}

(* The engine started and stopped by its user, on a link that holds.        *)
NextLife ==
    \/ Start(TRUE, HOST, ADDRESS)
    \/ StartSubscribe
    \/ StopBegin
    \/ StopJoined
    \/ StopJoinTimeout
    \/ \E c \in Conns : RecvNext(c, RunLines(c))
    \/ \E c \in Conns : KaWake(c)
    \/ \E w \in Workers : WorkerNext(w)

SpecLife == Init /\ [][NextLife]_vars

(* One engine run seen at the socket: a thread may be inside sendall while  *)
(* the other threads go on.                                                 *)
NextWire ==
    \/ Start(TRUE, HOST, ADDRESS)
    \/ StartSubscribe
    \/ \E c \in Conns : RecvNext(c, RunLines(c))
    \/ \E c \in Conns : LinkDown(c)
    \/ \E w \in Workers : WorkerRun(w)
    \/ \E c \in Conns, by \in {"recv", "worker"} : SendBegin(c, by)

SpecWire == Init /\ [][NextWire]_vars

(* One engine run whose workers measure the hashrate: the pool answers the  *)
(* handshake, the link may break, and the measurement period may pass.      *)
NextTune ==
    \/ \E g \in BOOLEAN : Start(g, HOST, ADDRESS)
    \/ StartSubscribe
    \/ \E c \in Conns : RecvNext(c, RunLines(c))
    \/ \E c \in Conns : LinkDown(c)
    \/ \E w \in Workers : WorkerRun(w)
    \/ \E w \in Workers : WorkerTune(w)
    \/ MeasurementPeriodPasses

SpecTune == Init /\ [][NextTune]_vars

(* The engine started and stopped by its user on any of the hosts, the link *)
(* breaking at any time and the reconnect timers firing.  The pool writes   *)
(* no line, so no job is announced and no mining thread runs.               *)
NextReconnect ==
    \/ \E h \in Hosts : Start(TRUE, h, ADDRESS)
    \/ StartSubscribe
    \/ StopBegin
    \/ StopJoined
    \/ \E c \in Conns : RecvClosed(c)
    \/ \E c \in Conns : RecvStopped(c)
    \/ \E c \in Conns : RecvHdCallbacks(c)
    \/ \E c \in Conns : LinkDown(c)
    \/ \E k \in Timers : TimerNext(k)

SpecReconnect == Init /\ [][NextReconnect]_vars

\* the answers of a pool that accepts or refuses the worker
HandshakeLines(c) ==
    Responses({i \in DOMAIN cl[c].pending : cl[c].pending[i] = "subscribe"},
              {Answer(SubResult3, JNull)})
    \cup Responses({i \in DOMAIN cl[c].pending : cl[c].pending[i] = "authorize"},
                   {Answer(JTrue, JNull), Answer(JFalse, JNull)})

\* recv returns the pool's answer to a request of the handshake that is pending
RecvAnswer(c) ==
    /\ Receiving(c)
    /\ net[c].link = "up"
    /\ \E m \in HandshakeLines(c) :
           recvT' = [recvT EXCEPT ![c].pc = "lines", ![c].buf = <<m>>]
    /\ cl' = [cl EXCEPT ![c].recvAge = 0]
    /\ UNCHANGED <<net, kaT, eng, mainT, wk, tm, lg, miner, lk>>

(* One engine run whose connection breaks and is re-opened by the reconnect *)
(* timer, the pool answering the handshake of every connection.             *)
NextRejoin ==
    \/ Start(TRUE, HOST, ADDRESS)
    \/ StartSubscribe
    \/ \E c \in Conns : RecvAnswer(c)
    \/ \E c \in Conns : RecvClosed(c)
    \/ \E c \in Conns : RecvStopped(c)
    \/ \E c \in Conns : HandleLine(c)
    \/ \E c \in Conns : RecvAuthorize(c)
    \/ \E c \in Conns : RecvSuggest(c)
    \/ \E c \in Conns : RecvHdCallbacks(c)
    \/ \E c \in Conns : LinkDown(c)
    \/ \E k \in Timers : TimerRead(k)
    \/ \E k \in Timers : TimerReconnect(k)
    \/ \E k \in Timers : TimerSubscribe(k)

SpecRejoin == Init /\ [][NextRejoin]_vars

(* The same, every thread that can take a step taking it in the end and    *)
(* every timer that was started firing: a receive thread blocked in recv    *)
(* returns when the link is down, and threading.Timer runs _reconnect.      *)
ThreadStep ==
    \/ StartSubscribe
    \/ StopJoined
    \/ \E c \in Conns : RecvClosed(c) \/ RecvStopped(c) \/ RecvHdCallbacks(c)
    \/ \E k \in Timers : TimerNext(k)

ReconnectFairness == WF_vars(ThreadStep)

SpecReconnectLive == SpecReconnect /\ ReconnectFairness

(* The calls of the user: start() with or without an address, start()      *)
(* while the engine runs, stop(); the pool accepts the miner and announces  *)
(* jobs, and the workers sweep them without finding a share.                *)
CallLines(c) ==
    Responses({i \in DOMAIN cl[c].pending : cl[c].pending[i] = "subscribe"},
              {Answer(SubResult3, JNull)})
    \cup {Notification("mining.notify", NotifyParams("'j1'"))}

NextCalls ==
    \/ \E a \in Addresses : Start(TRUE, HOST, a)
    \/ \E a \in Addresses : StartIgnored(TRUE, HOST, a)
    \/ StartSubscribe
    \/ StopBegin
    \/ StopJoined
    \/ \E c \in Conns : \E m \in CallLines(c) : RecvLine(c, m)
    \/ \E c \in Conns : RecvStopped(c) \/ HandleLine(c) \/ RecvAuthorize(c)
    \/ \E w \in Workers : WorkerStartup(w) \/ WorkerDispatch(w) \/ WorkerNoShare(w) \/ WorkerExit(w)

SpecCalls == Init /\ [][NextCalls]_vars

(* The engine started and stopped by its user, the flag test of a worker a  *)
(* step apart from the kernel call that follows it.                         *)
NextHalt ==
    \/ Start(TRUE, HOST, ADDRESS)
    \/ StartSubscribe
    \/ StopBegin
    \/ StopJoined
    \/ StopJoinTimeout
    \/ \E c \in Conns : RecvNext(c, CallLines(c))
    \/ \E w \in Workers : WorkerFine(w)

SpecHalt == Init /\ [][NextHalt]_vars

\* every thread that can take a step takes one, each worker for itself
HaltFairness ==
    /\ WF_vars(StartSubscribe \/ StopJoined \/ StopJoinTimeout)
    /\ WF_vars(\E c \in Conns : RecvNext(c, CallLines(c)))
    /\ \A w \in Workers : WF_vars(WorkerFine(w))

SpecHaltLive == SpecHalt /\ HaltFairness

(* The threads of the program at their locks.                               *)
SpecLocks == Init /\ [][LockNext]_vars

(* The engine stopped and started again while its workers are in kernel    *)
(* calls that may outlast the join of stop(); the pool answers every        *)
(* handshake and announces jobs.                                            *)
NextRespawn ==
    \/ Start(TRUE, HOST, ADDRESS)
    \/ StartSubscribe
    \/ StopBegin
    \/ StopJoined
    \/ StopJoinTimeout
    \/ \E c \in Conns : RecvAnswer(c)
    \/ \E c \in Conns : RecvLine(c, Notification("mining.notify", NotifyParams("'j1'")))
    \/ \E c \in Conns : RecvStopped(c)
    \/ \E c \in Conns : HandleLine(c)
    \/ \E c \in Conns : RecvAuthorize(c)
    \/ \E c \in Conns : RecvSuggest(c)
    \/ \E w \in Workers : WorkerStartup(w)
    \/ \E w \in Workers : WorkerDispatch(w)
    \/ \E w \in Workers : WorkerNoShare(w)
    \/ \E w \in Workers : WorkerExit(w)

SpecRespawn == Init /\ [][NextRespawn]_vars

(* The engine on machines of 1 to MaxCpus CPUs, its thread counts set by   *)
(* the user at any time, the pool announcing two jobs: the workers are      *)
(* spawned on the first job and derive a starting nonce on each job switch. *)
MaxCpus == 3
ThreadCounts == {-1} \cup 1..MaxWorkers

JobLines(c) == CallLines(c) \cup {Notification("mining.notify", NotifyParams("'j2'"))}

InitThreads ==
    /\ cl = [c \in Conns |-> NewClient]
    /\ net = [c \in Conns |-> [link |-> "none", lines |-> 0, writing |-> {}]]
    /\ recvT = [c \in Conns |-> [pc |-> "off", buf |-> <<>>, was |-> FALSE, ret |-> FALSE]]
    /\ kaT = [c \in Conns |-> [pc |-> "off", was |-> FALSE]]
    /\ \E n \in 1..MaxCpus : eng = [NewEngine EXCEPT !.cpu_count = n]
    /\ mainT = [pc |-> "idle", c |-> 0, call |-> ""]
    /\ wk = [w \in Workers |-> NewWorker]
    /\ tm = [k \in Timers |-> NewTimer]
    /\ lg = [c \in Conns |-> NewLog]
    /\ lk = [t \in LockThreads |-> NoFragment]
    /\ miner = NoMiner

NextThreads ==
    \/ \E g, n \in ThreadCounts : SetThreadConfig(g, n)
    \/ \E g \in BOOLEAN : Start(g, HOST, ADDRESS)
    \/ StartSubscribe
    \/ \E c \in Conns : RecvNext(c, JobLines(c))
    \/ \E w \in Workers :
          \/ WorkerStartup(w)
          \/ WorkerCheck(w)
          \/ WorkerBeginAt(w)
          \/ WorkerNoShare(w)

SpecThreads == InitThreads /\ [][NextThreads]_vars

(* The engine started and stopped by its user while time passes and the    *)
(* pool stays silent: the keepalive thread pings and watches for inactivity *)
(* and the receive thread gets no data.                                     *)
NextQuiet ==
    \/ Start(TRUE, HOST, ADDRESS)
    \/ StartSubscribe
    \/ StopBegin
    \/ StopJoined
    \/ \E c \in Conns : RecvStopped(c)
    \/ \E c \in Conns : KaWake(c)
    \/ \E c \in Conns : KaHdCallbacks(c)
    \/ \E k \in Timers : TimerNext(k)
    \/ Tick

SpecQuiet == Init /\ [][NextQuiet]_vars

(* A miner on one job under a sequence of search calls: any base nonce and  *)
(* count of the input sets, on the CPU path or on the GPU path, with or     *)
(* without Metal.                                                           *)
InitKernel ==
    /\ InitEngine
    /\ \E i \in BOOLEAN, h \in Headers, t \in Targets : miner = NewMiner(i, h, t)

SpecKernel == InitKernel /\ [][KernelNext]_vars

(* The batches of one mining thread: search, then the share's nonce.        *)
SpecBatch == InitKernel /\ [][BatchNext]_vars

(* One miner shared by several threads: searches in flight, their locked    *)
(* counter updates and get_and_reset_hashcount in any interleaving.         *)
SpecCounter == InitKernel /\ [][CounterNext]_vars

(* The engine over its life: start(), stop(), disconnects and reconnects.   *)
Next ==
    \/ \E g \in BOOLEAN, h \in Hosts, a \in Addresses : Start(g, h, a)
    \/ \E g \in BOOLEAN, h \in Hosts, a \in Addresses, kind \in ConnectFailures :
          StartFails(g, h, a, kind)
    \/ \E g \in BOOLEAN, h \in Hosts, a \in Addresses : StartIgnored(g, h, a)
    \/ StartSubscribe
    \/ StopBegin
    \/ StopJoined
    \/ StopJoinTimeout
    \/ \E c \in Conns : RecvNext(c, RunLines(c))
    \/ \E c \in Conns : KaWake(c)
    \/ \E c \in Conns : LinkDown(c)
    \/ \E w \in Workers : WorkerNext(w)
    \/ \E w \in Workers : WorkerTune(w)
    \/ MeasurementPeriodPasses
    \/ \E c \in Conns, by \in {"recv", "recv of an earlier client", "worker"} : SendBegin(c, by)
    \/ \E k \in Timers : TimerNext(k)
    \/ \E w \in Workers : WorkerFine(w) \/ WorkerBeginAt(w)
    \/ \E g, n \in ThreadCounts : SetThreadConfig(g, n)
    \/ KernelNext
    \/ LockNext

Spec == Init /\ [][Next]_vars

----------------------------------------------------------------------------
(* Properties *)

\* C1: on_disconnect is invoked at most once per StratumClient connection,
\* whichever of the receive thread, the keepalive thread and a sending thread
\* calls _handle_disconnect, and in whatever order.
OnDisconnectAtMostOnce == \A c \in Conns : lg[c].on_disconnect <= 1

\* the receive thread saw the connection closed and the keepalive thread saw it
\* idle: both called _handle_disconnect, and on_disconnect was invoked once
TwoThreadsDisconnected ==
    \E c \in Conns :
        /\ recvT[c].pc = "done" /\ recvT[c].ret
        /\ kaT[c].pc = "done" /\ RecvIdle(cl[c])
        /\ lg[c].on_disconnect = 1

\* C2: shares_accepted + shares_rejected <= shares_submitted in every reachable
\* state, start(), stop() and reconnects interleaved in any way.
SharesAnsweredWithinSubmitted ==
    eng.shares_accepted + eng.shares_rejected <= eng.shares_submitted

\* stop() has returned and start() has not been called since
StopReturned == mainT.pc = "idle" /\ ~eng.running /\ eng.starts > 0

\* C3: after stop() returns, no call of mine_range_gpu / mine_range_cpu made by
\* a worker is outstanding, whatever the workers were doing when stop() was called.
NoDispatchAfterStop ==
    StopReturned => \A w \in Workers : wk[w].pc # "dispatch"

\* the line the receive thread of connection c is about to handle
Handling(c) == Head(recvT[c].buf)

\* the step handles, on connection c, the response to the request of purpose p
HandlesResponse(c, p) ==
    /\ recvT[c].pc = "lines"
    /\ recvT'[c].buf = Tail(recvT[c].buf)
    /\ Handling(c).json /\ Handling(c).method = None
    /\ Handling(c).id \in DOMAIN cl[c].pending
    /\ cl[c].pending[Handling(c).id] = p

\* the step handles, on connection c, the server's method m
HandlesMethod(c, m) ==
    /\ recvT[c].pc = "lines"
    /\ recvT'[c].buf = Tail(recvT[c].buf)
    /\ Handling(c).json /\ Handling(c).method = m

\* C4 as the spec states it: within one session extranonce1 is assigned once,
\* and no later message of the session assigns it again.
Extranonce1AssignedOnce == \A c \in Conns : Len(lg[c].en1_assigned) <= 1

\* C4, amended: within one session extranonce1 is assigned by the subscribe
\* response, at most once, and by each mining.set_extranonce that carries two
\* parameters; no other message and no request assigns it.
Extranonce1AssignedBySubscribeOrSetExtranonce ==
    /\ [](\A c \in Conns :
            Cardinality({i \in DOMAIN lg[c].en1_assigned :
                            lg[c].en1_assigned[i] = "subscribe"}) <= 1)
    /\ [][\A c \in Conns :
            (lg'[c].en1_assigned # lg[c].en1_assigned
                \/ cl'[c].extranonce1 # cl[c].extranonce1)
            => \/ HandlesResponse(c, "subscribe")
               \/ HandlesMethod(c, "mining.set_extranonce") /\ Len(Handling(c).params) >= 2]_vars

\* a session whose extranonce1 the subscribe response set and a later
\* mining.set_extranonce replaced
Extranonce1Replaced ==
    \E c \in Conns :
        /\ lg[c].en1_assigned = <<"subscribe", "set_extranonce">>
        /\ cl[c].extranonce1 = "e2"

\* the request the keepalive loop of connection c writes when it wakes now
KeepalivePing(c) ==
    [id |-> cl[c].msg_id + 1, method |-> "mining.suggest_difficulty",
     params |-> <<cl[c].difficulty>>, purpose |-> "keepalive", by |-> "keepalive"]

\* C5: the keepalive never sends mining.subscribe; when more than 60 s have
\* passed since the last send it sends mining.suggest_difficulty with the
\* session's current difficulty, recorded with purpose keepalive; neither that
\* request nor its response changes extranonce1 or extranonce2_size.
KeepaliveIsHarmless ==
    /\ [](\A c \in Conns : \A i \in DOMAIN lg[c].sent :
            lg[c].sent[i].by = "keepalive"
            => /\ lg[c].sent[i].method = "mining.suggest_difficulty"
               /\ lg[c].sent[i].purpose = "keepalive")
    /\ [][\A c \in Conns :
            /\ (KaWake(c) /\ SendIdle(cl[c]) /\ cl[c].socket /\ net[c].link = "up")
               => /\ lg'[c].sent = Append(lg[c].sent, KeepalivePing(c))
                  /\ cl'[c].pending = (KeepalivePing(c).id :> "keepalive") @@ cl[c].pending
            /\ (KaWake(c) /\ ~SendIdle(cl[c])) => lg'[c].sent = lg[c].sent
            /\ (KaWake(c) \/ HandlesResponse(c, "keepalive"))
               => /\ cl'[c].extranonce1 = cl[c].extranonce1
                  /\ cl'[c].extranonce2_size = cl[c].extranonce2_size]_vars

\* a keepalive that carried the difficulty the pool had set was answered, and
\* the session still has the extranonce1 of its subscribe response
KeepaliveAnswered ==
    \E c \in Conns : \E i \in DOMAIN lg[c].sent :
        /\ lg[c].sent[i].by = "keepalive"
        /\ lg[c].sent[i].params = <<"8.0">>
        /\ <<lg[c].sent[i].id, "keepalive">> \in lg[c].dispatched
        /\ cl[c].extranonce1 = "e1" /\ cl[c].extranonce2_size = 8

\* the requests the client wrote on connection c (not its replies to the pool)
Requests(c) == {i \in DOMAIN lg[c].sent : lg[c].sent[i].purpose # "reply"}

\* what the handlers of the three purposes that have one leave behind
SubscribeHandled(c) == lg'[c].en1_assigned # lg[c].en1_assigned \/
    (Len(lg'[c].statuses) > Len(lg[c].statuses) /\
     lg'[c].statuses[Len(lg[c].statuses) + 1] \in {"Subscribed", "Subscribe Failed"})
AuthorizeHandled(c) == Len(lg'[c].on_authorized) = Len(lg[c].on_authorized) + 1
SubmitHandled ==
    eng'.shares_accepted + eng'.shares_rejected = eng.shares_accepted + eng.shares_rejected + 1

\* C6: every request gets an id unique on its connection and is in the pending
\* table under its purpose when it is written; a response with that id goes to
\* the handler of that purpose, and to no other, and removes the entry,
\* whatever the order of the responses and whichever threads send.
RequestIdsRoundTrip ==
    /\ [](\A c \in Conns :
            /\ \A i, j \in Requests(c) : lg[c].sent[i].id = lg[c].sent[j].id => i = j
            /\ \A d \in lg[c].dispatched : \E i \in Requests(c) :
                   lg[c].sent[i].id = d[1] /\ lg[c].sent[i].purpose = d[2])
    /\ [][\A c \in Conns :
            /\ (Len(lg'[c].sent) > Len(lg[c].sent) /\ Len(lg'[c].sent) \in Requests(c)')
               => LET r == lg'[c].sent[Len(lg'[c].sent)]
                  IN /\ r.id \notin DOMAIN cl[c].pending
                     /\ r.id \in DOMAIN cl'[c].pending
                     /\ cl'[c].pending[r.id] = r.purpose
            /\ \A p \in {"subscribe", "authorize", "submit", "suggest_difficulty", "keepalive"} :
                  HandlesResponse(c, p)
                  => /\ <<Handling(c).id, p>> \in lg'[c].dispatched
                     /\ Handling(c).id \notin DOMAIN cl'[c].pending
                     /\ SubscribeHandled(c) <=> p = "subscribe"
                     /\ AuthorizeHandled(c) <=> p = "authorize"
                     /\ SubmitHandled <=> p = "submit"]_vars

\* the pool answered a worker's submit before the authorize sent ahead of it
AnsweredOutOfOrder ==
    \E c \in Conns :
        /\ 2 \in DOMAIN cl[c].pending /\ cl[c].pending[2] = "authorize"
        /\ <<3, "submit">> \in lg[c].dispatched
        /\ 3 \notin DOMAIN cl[c].pending

\* the statuses of a handshake that succeeds
Handshake == <<"Connecting", "Connected", "Subscribing", "Subscribed", "Authorizing", "Authorized">>

InHandshake(status) == \E i \in DOMAIN Handshake : Handshake[i] = status

IsPrefix(s, t) == Len(s) <= Len(t) /\ \A i \in DOMAIN s : s[i] = t[i]

\* the statuses reported on connection c follow the handshake's order
StatusesInOrder(c) == IsPrefix(SelectSeq(lg[c].statuses, InHandshake), Handshake)

\* the first request written on connection c is mining.subscribe
FirstRequestIsSubscribe(c) ==
    \A i \in Requests(c) :
        (\A j \in Requests(c) : i <= j) => lg[c].sent[i].method = "mining.subscribe"

\* the first request written on connection c by connect() or by the
\* connection's receive or keepalive thread is mining.subscribe
FirstOwnRequestIsSubscribe(c) ==
    LET own == {i \in Requests(c) : lg[c].sent[i].by \in {"main", "timer", "recv", "keepalive"}}
    IN \A i \in own : (\A j \in own : i <= j) => lg[c].sent[i].method = "mining.subscribe"

\* the step writes a request on connection c
Writes(c) == Len(lg'[c].sent) > Len(lg[c].sent) /\ Len(lg'[c].sent) \in Requests(c)'

Written(c) == lg'[c].sent[Len(lg'[c].sent)]

\* mining.authorize is written only by the handler of a subscribe response
\* without error, which has set extranonce1 and extranonce2_size from the result
AuthorizeAfterSubscribe(c) ==
    /\ (recvT'[c].pc = "authorize" /\ recvT[c].pc # "authorize")
       => /\ HandlesResponse(c, "subscribe")
          /\ ~Truthy(Handling(c).error)
          /\ LET r == Handling(c).result.toks
             IN /\ cl'[c].extranonce1 = PyStr(r[2])
                /\ cl'[c].extranonce2_size =
                      IF Len(r) >= 3 THEN IntOf(r[3]) ELSE DEFAULT_EXTRANONCE2_SIZE
    /\ (Writes(c) /\ Written(c).method = "mining.authorize")
       => recvT[c].pc = "authorize" /\ Written(c).by = "recv"

\* between the subscribe response and mining.authorize no request is written
AuthorizeIsNextRequest(c) ==
    (recvT[c].pc = "authorize" /\ Writes(c)) => Written(c).method = "mining.authorize"

\* between the subscribe response and mining.authorize the receive thread
\* handles no message and writes no other request
AuthorizeIsNextOfReceiver(c) ==
    recvT[c].pc = "authorize"
    => /\ (Writes(c) /\ Written(c).by = "recv") => Written(c).method = "mining.authorize"
       /\ recvT'[c].buf = recvT[c].buf

Authorizes(c) == {i \in Requests(c) : lg[c].sent[i].method = "mining.authorize"}

\* C8: an authorize response with null error and truthy result sets authorized
\* and reports Authorized; one with a non-null error or a falsey result leaves
\* authorized false, surfaces Auth Failed to the engine and invokes
\* on_authorized(false) once; no second mining.authorize is sent on the connection.
AuthorizeResponseDecides ==
    /\ [](\A c \in Conns : Cardinality(Authorizes(c)) <= 1)
    /\ [][\A c \in Conns :
            HandlesResponse(c, "authorize")
            => LET ok == Handling(c).error = JNull /\ Truthy(Handling(c).result)
               IN /\ cl'[c].authorized = ok
                  /\ lg'[c].statuses =
                        Append(lg[c].statuses, IF ok THEN "Authorized" ELSE "Auth Failed")
                  /\ lg'[c].on_authorized = Append(lg[c].on_authorized, ok)
                  /\ ~ok => eng'.status = "Auth Failed"]_vars

\* connection c reported Subscribe Failed
SubscribeFailed(c) == \E i \in DOMAIN lg[c].statuses : lg[c].statuses[i] = "Subscribe Failed"

\* C9: a subscribe response that is fatal (a non-null error, a result that is
\* not a non-empty array or has fewer than two elements, an empty or missing
\* extranonce1) sets the status Subscribe Failed, and a session that reported
\* Subscribe Failed never reaches Mining.
NoMiningAfterSubscribeFailed ==
    \A c \in Conns : SubscribeFailed(c) => ~(eng.stratum = c /\ eng.status = "Mining")

\* the subscribe of connection c has succeeded
SubscribeSucceeded(c) == \E i \in DOMAIN lg[c].statuses : lg[c].statuses[i] = "Subscribed"

\* C10: a well-formed mining.notify is given to on_job if and only if the
\* subscribe of its connection has succeeded when it arrives, authorized or not;
\* each job delivered while not authorized adds one to the pre-auth job count;
\* a notify that arrives before a successful subscribe is not delivered.
NotifyDeliveredIffSubscribed ==
    [][\A c \in Conns :
         (HandlesMethod(c, "mining.notify") /\ JobParses(Handling(c).params))
         => /\ lg'[c].on_job = lg[c].on_job + (IF SubscribeSucceeded(c) THEN 1 ELSE 0)
            /\ cl'[c].jobs_before_auth =
                  cl[c].jobs_before_auth +
                  (IF SubscribeSucceeded(c) /\ ~cl[c].authorized THEN 1 ELSE 0)]_vars

\* C11: a mining.submit response matched to a pending submit is reported as
\* accepted if and only if its result is truthy and its error is null; it adds
\* one to exactly one of shares_accepted and shares_rejected, once, and a
\* rejection leaves the engine running with its job, workers and status.
SubmitResponseCounts ==
    [][\A c \in Conns :
         HandlesResponse(c, "submit")
         => LET ok == Truthy(Handling(c).result) /\ Handling(c).error = JNull
            IN /\ eng'.shares_accepted = eng.shares_accepted + (IF ok THEN 1 ELSE 0)
               /\ eng'.shares_rejected = eng.shares_rejected + (IF ok THEN 0 ELSE 1)
               /\ ~ok => /\ eng'.running = eng.running
                         /\ eng'.status = eng.status
                         /\ eng'.current_job = eng.current_job
                         /\ wk' = wk
                         /\ cl'[c].running = cl[c].running]_vars

\* C12, the requests of the pool: handling a client.reconnect whose target host
\* differs from the host of the connection changes nothing and starts no
\* disconnect handling; one whose host matches starts the disconnect handling
\* of the connection.
ReconnectRequestPolicy ==
    [][\A c \in Conns :
         (HandlesMethod(c, "client.reconnect") /\ Len(Handling(c).params) > 0)
         => LET target == PyStr(Handling(c).params[1])
            IN /\ target # cl[c].host
                  => /\ UNCHANGED <<cl, eng, lg, tm, wk, net>>
                     /\ recvT'[c].pc # "hd_cb"
               /\ target = cl[c].host
                  => /\ cl'[c].disconnected
                     /\ ~cl[c].disconnected => recvT'[c].pc = "hd_cb"]_vars

\* C12: for any sequence of server messages and of start(), stop() and
\* reconnects, a client.reconnect to a different host is ignored, one to the
\* same host triggers the disconnect handling, and every connection the engine
\* opens is to the host given to the last start().
ConnectsToHostOfLastStart ==
    [][\A c \in Conns :
         (cl'[c].created /\ ~cl[c].created) => cl'[c].host = eng'.reconnect_params]_vars

\* connection c, the current one of a running engine, has lost its link
Dropped(c) ==
    /\ net[c].link = "down"
    /\ eng.stratum = c
    /\ eng.running /\ eng.reconnect_enabled

\* after connection c the engine has made a connection to the host stored by
\* the last start()
Reopened(c) ==
    \E d \in Conns : d > c /\ cl[d].created /\ cl[d].host = eng.reconnect_params

\* C13: while the engine is running with reconnect enabled, every unexpected
\* disconnect of the current connection is followed in the end by a re-open of
\* the connection with the host stored by the last start(), unless the engine
\* is stopped first.
ReconnectFollowsDisconnect ==
    \A c \in 1..(MaxConn - 1) : Dropped(c) ~> (Reopened(c) \/ ~eng.running)

\* the step is a call of start(): one that took effect, or one that was ignored
StartCalled ==
    \/ eng'.starts # eng.starts
    \/ mainT'.call = "ignored" /\ mainT.call # "ignored"

\* C14: a start() invoked while the engine is running is a no-op: it leaves the
\* counters, the status, the reconnect parameters, the kernel and the Stratum
\* connection as they are, and makes no new connection.
StartIsIdempotent ==
    [][(StartCalled /\ eng.running)
       => UNCHANGED <<eng, cl, net, lg, wk, tm, recvT, kaT>>]_vars

\* start() was called and ignored while the engine was mining a job
StartIgnoredWhileMining ==
    /\ mainT.call = "ignored"
    /\ eng.running /\ eng.status = "Mining" /\ eng.jobs_received > 0
    /\ \E w \in Workers : wk[w].pc = "dispatch"

\* C15: start() called with an empty address refuses to start: the engine
\* stays not running in status Idle and no Stratum connection is opened.
StartWithoutAddressRefused ==
    [][\A c \in Conns :
         (cl'[c].created /\ ~cl[c].created /\ eng'.starts # eng.starts)
         => cl'[c].address # ""]_vars

\* C16: when stop() has returned the status is Idle, and it stays Idle until
\* the next start(): no callback of the stopped session (receive thread,
\* keepalive thread, a worker's failed send) changes it.
IdleAfterStop == StopReturned => eng.status = "Idle"

\* the statuses of the handshake that come before Mining
EarlyStatuses == {"Subscribed", "Authorizing", "Authorized"}

\* the step ran the disconnect handling of a connection, which replaces Mining
\* by Disconnected or Reconnecting
DisconnectHandled == \E c \in Conns : lg'[c].on_disconnect # lg[c].on_disconnect

Returned == miner.exists /\ miner.calls > 0 /\ ~miner.raised

\* the nonces of [base_nonce, base_nonce + count) mod 2^32
RangeNonces(base_nonce, count) ==
    {Mask32(Plus(Mask32(base_nonce), Small(k))) : k \in 0..(count - 1)}

\* the count of nonces the last call swept: mine_range_gpu clamps it at 2^32
SweptCount ==
    IF miner.kernel = "gpu" THEN GpuCount(miner.base_nonce, miner.count) ELSE miner.count

\* SHA-256d of the job's header with its nonce field replaced by `nonce`
\* (packed little-endian, as build_block_header packs it), read as a
\* little-endian integer, is below the job's target
Winner(nonce) == CpuWins(miner.header_data, miner.target_int, nonce)

\* the result of the last call is a winner of the range it was given, or it is
\* None and no nonce of the swept range is a winner
ResultIsWinnerOfRange ==
    IF miner.ret = NoNonce
    THEN \A x \in RangeNonces(miner.base_nonce, SweptCount) : ~Winner(x)
    ELSE /\ miner.ret \in RangeNonces(miner.base_nonce, miner.count)
         /\ Winner(miner.ret)

\* C18: a search on either kernel path returns None or a nonce of
\* [b, b+n) mod 2^32 whose double SHA-256, read as a little-endian 256-bit
\* integer, is strictly below the target; it never reports a nonce outside
\* the range, and it returns None only when no nonce of the swept range wins.
SearchReturnsWinnerOfRange == Returned => ResultIsWinnerOfRange

\* C18, the CPU path alone: the same statement for the calls that ran the
\* loop of mine_range_cpu.
CpuSearchReturnsWinnerOfRange == (Returned /\ miner.kernel = "cpu") => ResultIsWinnerOfRange

\* mine_range_cpu returns a nonce for the arguments of the last call
CpuFinds ==
    CpuFirst(miner.header_data, miner.target_int, miner.base_nonce, miner.count, 0) < miner.count

\* C19: the GPU and the CPU kernel agree on whether a winner exists:
\* mine_range_gpu returns a nonce if and only if mine_range_cpu returns a
\* nonce for the same header, target, base nonce and count.
GpuAgreesWithCpu ==
    (Returned /\ miner.kernel = "gpu") => ((miner.ret # NoNonce) <=> CpuFinds)

\* C20: after any sequence of search calls the miner's best_share_bits is the
\* largest number of leading zero bits (of the little-endian hash) over all
\* the nonces it has evaluated, on the GPU path and on the CPU path alike.
BestShareBitsIsMaxSeen == miner.exists => miner.best_share_bits = SetMax(miner.seen)

\* C20, the GPU path alone: the same statement while every search ran the shader.
GpuBestShareBitsIsMaxSeen ==
    (miner.exists /\ "cpu" \notin miner.ran) => miner.best_share_bits = SetMax(miner.seen)

\* C20, monotonicity: best_share_bits never decreases.
BestShareBitsNeverDecreases ==
    [][miner.exists => miner'.best_share_bits >= miner.best_share_bits]_vars

\* the values returned by read-and-reset and the value still in the counter
\* add up to the number of nonces evaluated by the completed searches
HashcountSum == miner.exists => miner.taken + miner.hashcount = miner.evaluated

\* a read-and-reset returns the counter and leaves it at zero
ResetLeavesZero ==
    (miner.exists /\ miner'.taken # miner.taken) =>
        (miner'.hashcount = 0 /\ miner'.taken = miner.taken + miner.hashcount)

\* C21: the hash counter is exact under concurrency: in any interleaving of
\* searches by several threads and read-and-reset calls, the values returned
\* by read-and-reset plus the value still in the counter add up to the number
\* of nonces evaluated by the completed searches (a search of n nonces with
\* no winner adds n), and read-and-reset leaves the counter at zero.
HashcountIsExact == []HashcountSum /\ [][ResetLeavesZero]_vars

\* two searches are completed with a read-and-reset between their counter
\* updates, the later one a CPU search that stopped at a winner before the end
\* of its range
CountedAcrossReset ==
    /\ miner.exists /\ miner.taken > 0 /\ miner.hashcount > 0 /\ miner.calls = 2
    /\ miner.ret # NoNonce /\ miner.kernel = "cpu" /\ miner.count = 3
    /\ miner.ret = CpuNonce(miner.base_nonce, 0)

\* int(s, 16) of eight lowercase hex characters, as the pool parses the nonce
HexValue(ch) == CHOOSE d \in 0..15 : HexChars[d + 1] = ch
ParseHex(s) ==
    <<HexValue(s[1]) * 4096 + HexValue(s[2]) * 256 + HexValue(s[3]) * 16 + HexValue(s[4]),
      HexValue(s[5]) * 4096 + HexValue(s[6]) * 256 + HexValue(s[7]) * 16 + HexValue(s[8])>>

\* the 80 bytes the kernel that ran hashed for the nonce it returned
HashedForResult ==
    IF miner.kernel = "gpu"
    THEN GpuMessage(HeaderUints(miner.header_data), miner.ret)
    ELSE CpuMessage(miner.header_data, miner.ret)

CpuShareSubmitted ==
    /\ miner.exists /\ miner.share.call > 0 /\ miner.share.call = miner.calls
    /\ miner.kernel = "cpu"
    /\ miner.ret = <<1, 0>>

\* the step handles, on connection c, a line that is not JSON
HandlesNonJson(c) ==
    /\ recvT[c].pc = "lines"
    /\ recvT'[c].buf = Tail(recvT[c].buf)
    /\ ~Handling(c).json

\* the step is a recv on connection c that brings the buffer past its bound
Overflows(c) ==
    /\ recvT[c].pc = "recv"
    /\ net'[c].lines < net[c].lines
    /\ recvT'[c].buf = <<>>

\* C23: a protocol violation on the receive path causes disconnect handling:
\* a received line that is not valid JSON, and a receive buffer that grows
\* past 1 MiB before a newline, each leave the connection declared
\* disconnected.
ProtocolViolationDisconnects ==
    [][\A c \in Conns : (HandlesNonJson(c) \/ Overflows(c)) => cl'[c].disconnected]_vars

\* C23, the buffer bound alone.
OverflowDisconnects ==
    [][\A c \in Conns : Overflows(c) => cl'[c].disconnected]_vars

\* the receive thread handles a mining.notify with fewer than 8 params
ShortNotify(c) ==
    /\ HandlesMethod(c, "mining.notify")
    /\ Len(Handling(c).params) < 8

\* the notification changed nothing of the job state and the session goes on
Skipped(c) ==
    /\ lg'[c].on_job = lg[c].on_job
    /\ eng'.current_job = eng.current_job
    /\ eng'.jobs_received = eng.jobs_received
    /\ eng'.status = eng.status
    /\ cl'[c].connected = cl[c].connected
    /\ cl'[c].disconnected = cl[c].disconnected
    /\ cl'[c].running = cl[c].running
    /\ recvT'[c].pc = "recv"

\* C24: a mining.notify with fewer than 8 params is skipped: on_job is not
\* called, the engine's current job, jobs_received and status are unchanged,
\* and the connection stays up with the receive thread reading on.
ShortNotifyIsSkipped ==
    [][\A c \in Conns : ShortNotify(c) => Skipped(c)]_vars

\* C24, for the short notifications whose merkle_branch, if present, has a
\* length.
WellTypedShortNotifyIsSkipped ==
    [][\A c \in Conns :
          (ShortNotify(c) /\ \A i \in DOMAIN Handling(c).params :
                                 i = 5 => TokHasLen(Handling(c).params[i]))
          => Skipped(c)]_vars

\* the kernel call of worker w raises RuntimeError
DispatchFailed(w) == wk[w].pc = "dispatch" /\ wk'[w].pc = "backoff"

\* worker w leaves the back-off of a kernel failure
BackoffLeft(w) == wk[w].pc = "backoff" /\ wk'[w].pc # "backoff"

\* C25: a kernel dispatch failure is not fatal: the worker that receives it
\* goes to the back-off with its crash record written, the engine, its share
\* counters and every Stratum session are left as they were, and the back-off
\* ends at the head of the worker loop, never with the end of the worker.
DispatchFailureIsNotFatal ==
    /\ [][\A w \in Workers : DispatchFailed(w) => UNCHANGED <<eng, cl, net, lg, recvT, kaT>>]_vars
    /\ [][\A w \in Workers : BackoffLeft(w) => wk'[w].pc = "loop"]_vars

\* a worker is in the back-off of a kernel failure after a share was submitted,
\* the engine running on a connected session
BackingOffWhileMining ==
    \E w \in Workers :
        /\ wk[w].pc = "backoff"
        /\ eng.running /\ eng.stratum # 0 /\ cl[eng.stratum].connected
        /\ eng.shares_submitted > 0

\* the hashrate-based suggestions written on connection c
TuneSent(c) ==
    {i \in DOMAIN lg[c].sent : /\ lg[c].sent[i].by = "worker"
                               /\ lg[c].sent[i].purpose = "suggest_difficulty"}

\* the hashrate-based suggestions written in this behaviour
TunesSent == Cardinality({<<c, i>> \in Conns \X (1..MaxId) : i \in TuneSent(c)})

\* a worker has made the hashrate measurement that follows the period
TuneDone == eng.hashrate_diff_suggested

\* C26: in an engine run the hashrate-based mining.suggest_difficulty is sent
\* exactly once: never twice, and once a worker has measured a positive
\* hashrate after the measurement period it has been sent.
TuneSentExactlyOnce ==
    /\ TunesSent <= 1
    /\ TuneDone => TunesSent = 1

\* C26, with one worker thread: the suggestion is not sent twice.
TuneSentAtMostOnceByOneWorker ==
    eng.use_gpu => TunesSent <= 1

\* the receive thread of connection c handles a mining.authorize answer that
\* succeeds
Authorized(c) ==
    /\ HandlesResponse(c, "authorize")
    /\ Len(lg'[c].on_authorized) = Len(lg[c].on_authorized) + 1
    /\ lg'[c].on_authorized[Len(lg'[c].on_authorized)]

\* the receive thread of connection c leaves _on_authorized
LeavesOnAuthorized(c) == recvT[c].pc = "suggest" /\ recvT'[c].pc # "suggest"

\* the step wrote mining.suggest_difficulty 0.5 on connection c
SuggestsInitial(c) ==
    /\ Len(lg'[c].sent) = Len(lg[c].sent) + 1
    /\ lg'[c].sent[Len(lg'[c].sent)].method = "mining.suggest_difficulty"
    /\ lg'[c].sent[Len(lg'[c].sent)].params = <<"0.5">>

\* C27: every successful authorization is followed immediately by a
\* mining.suggest_difficulty 0.5 on that connection: the handler of a
\* successful answer goes on to the suggestion, and the suggestion is written
\* when the link is up.
InitialSuggestionFollowsAuthorization ==
    /\ [][\A c \in Conns : Authorized(c) => recvT'[c].pc = "suggest"]_vars
    /\ [][\A c \in Conns : (LeavesOnAuthorized(c) /\ net[c].link = "up")
                             => SuggestsInitial(c)]_vars

\* C27, the first authorization of a run on a link that is up.
FirstAuthorizationSuggests ==
    [][\A c \in Conns :
          (LeavesOnAuthorized(c) /\ ~eng.initial_diff_suggested /\ net[c].link = "up"
           /\ eng.stratum = c)
          => SuggestsInitial(c)]_vars

\* C27, the order of the two suggestions in one run.
TuneAfterInitialSuggestion == TunesSent > 0 => eng.initial_diff_suggested

\* C28: all outbound writes to the Stratum socket are mutually exclusive: at
\* most one thread is inside the write of a message on a connection at a time.
OutboundWritesExclusive ==
    \A c \in Conns : Cardinality(net[c].writing) <= 1

\* worker w starts a search batch
StartsBatch(w) == wk[w].pc = "loop" /\ wk'[w].pc = "dispatch"

\* worker w submits a share
SubmitsShare(w) == wk[w].pc = "submit" /\ wk'[w].pc # "submit"

\* the connection job j was received on has been declared disconnected
OfLostConnection(j) == j.conn # 0 /\ cl[j.conn].disconnected

\* C29: from the disconnect of a connection on, no worker starts a search
\* batch against, or submits a share for, a job received on that connection.
NoWorkOnJobOfLostConnection ==
    [][\A w \in Workers :
          /\ StartsBatch(w) => ~OfLostConnection(wk'[w].job)
          /\ SubmitsShare(w) => ~OfLostConnection(wk[w].job)]_vars

\* C29, after _reconnect has cleared the job: no batch is started until a job
\* is accepted.
NoBatchWithoutJob ==
    [][\A w \in Workers : StartsBatch(w) => eng.current_job # NoJob]_vars

\* the receive thread of connection c handles a response whose id is not in
\* the pending-request table
HandlesUnknownId(c) ==
    /\ recvT[c].pc = "lines"
    /\ recvT'[c].buf = Tail(recvT[c].buf)
    /\ Handling(c).json /\ Handling(c).method = None /\ Handling(c).id # 0
    /\ ~Handling(c).idHashable \/ Handling(c).id \notin DOMAIN cl[c].pending

\* the response left no trace: no callback, no change of the session, of the
\* engine, of the workers or of the pending-request table
Discarded(c) ==
    /\ UNCHANGED <<cl, eng, lg, wk, tm, net>>
    /\ recvT'[c].pc = "recv"

\* C30: a response whose id is not in the pending-request table is discarded.
UnknownIdIsDiscarded ==
    [][\A c \in Conns : HandlesUnknownId(c) => Discarded(c)]_vars

\* C30, for the ids that are numbers.
UnknownNumberIdIsDiscarded ==
    [][\A c \in Conns : (HandlesUnknownId(c) /\ Handling(c).idHashable)
                        => Discarded(c)]_vars

\* worker w is alive after stop() cleared the flag
AliveWhileStopped(w) == ~eng.running /\ IsAlive(wk[w])

\* C31: once stop() has cleared the flag, every worker exits its loop unless
\* start() sets the flag again, and a worker begins at most one kernel call
\* with the flag cleared: the one whose flag test it had already passed.
WorkersExitAfterStop ==
    /\ \A w \in Workers : AliveWhileStopped(w) ~> (~IsAlive(wk[w]) \/ eng.running)
    /\ [](\A w \in Workers : wk[w].late <= 1)

\* a worker began a kernel call after stop() had cleared the flag, and exited
\* before the next start()
ExitedAfterLateDispatch ==
    \E w \in Workers : wk[w].late = 1 /\ wk[w].pc = "exited" /\ ~eng.running

\* the watchdog of connection c wakes up
KaWakes(c) == kaT[c].pc = "sleep" /\ kaT'[c].pc # "sleep"

\* the watchdog of connection c enters the disconnect handling
KaTriggers(c) == kaT[c].pc = "sleep" /\ kaT'[c].pc = "hd_cb"

\* connection c is open: connected and not closed by disconnect()
Live(c) == cl[c].socket /\ cl[c].running /\ ~cl[c].disconnected

\* C32: the watchdog that wakes on a live connection silent for more than
\* 120 s enters the disconnect handling; it never enters it on a connection
\* that received data within the last 120 s, nor on one the client closed
\* with disconnect().
WatchdogDeclaresDeadOnlyLiveSilent ==
    /\ [][\A c \in Conns : (KaWakes(c) /\ Live(c) /\ RecvIdle(cl[c])) => KaTriggers(c)]_vars
    /\ [][\A c \in Conns : KaTriggers(c) => RecvIdle(cl[c])]_vars
    /\ [][\A c \in Conns : KaTriggers(c) => cl[c].socket]_vars

\* C32 without its last part: a silent live connection is declared dead, and
\* no connection that received data within 120 s is.
WatchdogDeclaresSilentDead ==
    /\ [][\A c \in Conns : (KaWakes(c) /\ Live(c) /\ RecvIdle(cl[c])) => KaTriggers(c)]_vars
    /\ [][\A c \in Conns : KaTriggers(c) => RecvIdle(cl[c])]_vars


\* worker w has derived a starting nonce
Derived(w) == wk[w].n_threads > 0

\* floor(2^32 / N)
TwoTo32Over(n) == DivSmall(<<65536, 0>>, n)

\* x lies in [i * P, (i + 1) * P)
InPartition(x, i, P) == ~Less(x, TimesSmall(P, i)) /\ Less(x, TimesSmall(P, i + 1))

\* C33: the starting nonce worker i of N derives on a job change lies in
\* [i*P, (i+1)*P) with P = floor(2^32 / N) and within u32, and the starting
\* nonces of two distinct workers never lie in the same partition.
StartNonceInOwnPartition ==
    /\ \A w \in Workers :
          Derived(w) =>
              /\ InPartition(wk[w].nonce_offset, wk[w].idx, TwoTo32Over(wk[w].n_threads))
              /\ ~Less(U32Max, wk[w].nonce_offset)
    /\ \A w, v \in Workers :
          (w # v /\ Derived(w) /\ Derived(v) /\ wk[w].n_threads = wk[v].n_threads) =>
              \A i \in 0..(wk[w].n_threads - 1) :
                  ~(/\ InPartition(wk[w].nonce_offset, i, TwoTo32Over(wk[w].n_threads))
                    /\ InPartition(wk[v].nonce_offset, i, TwoTo32Over(wk[v].n_threads)))

\* C33 with the partition size the code computes, 0xFFFFFFFF // N: the
\* starting nonce of worker i lies in [i*P, (i+1)*P).
StartNonceInOwnCodePartition ==
    \A w \in Workers :
        Derived(w) =>
            InPartition(wk[w].nonce_offset, wk[w].idx, PartitionSize(wk[w].n_threads))

\* C33, what does hold: the starting nonce of worker i lies in
\* [i*P, (i+1)*P], both ends included, with P = 0xFFFFFFFF // N.
StartNonceWithinClosedPartition ==
    \A w \in Workers :
        Derived(w) =>
            LET P == PartitionSize(wk[w].n_threads)
            IN  /\ ~Less(wk[w].nonce_offset, TimesSmall(P, wk[w].idx))
                /\ ~Less(TimesSmall(P, wk[w].idx + 1), wk[w].nonce_offset)

\* two workers of one spawn start a job at the same nonce
SameStartNonce ==
    \E w, v \in Workers :
        /\ w # v /\ Derived(w) /\ Derived(v)
        /\ wk[w].job = wk[v].job
        /\ wk[w].nonce_offset = wk[v].nonce_offset

\* _on_job starts a set of mining threads
Spawns == eng'.mining_threads # eng.mining_threads /\ eng'.mining_threads # {}

ConnectedSession == eng.stratum # 0 /\ cl[eng.stratum].connected

\* a thread is inside _handle_disconnect for a connection that was lost
HandlingDisconnect == \E c \in Conns : recvT[c].pc = "hd_cb" \/ kaT[c].pc = "hd_cb"

\* a reconnect timer runs, or _reconnect or connect() is under way
TimerPending == \E k \in Timers : tm[k].pc = "pending"
ConnectInProgress ==
    mainT.pc = "subscribe" \/ \E k \in Timers : tm[k].pc \in {"reconnect", "subscribe"}

\* C35: while the engine runs with reconnect enabled, whenever there is no
\* connected Stratum session a reconnect timer is pending or a connect is in
\* progress, also after a re-open attempt that failed.
NeverLeftWithoutConnection ==
    (eng.running /\ eng.reconnect_enabled /\ ~ConnectedSession /\ ~HandlingDisconnect)
        => (TimerPending \/ ConnectInProgress)

\* C35 for every loss of a connection that was made: the disconnect handling
\* leaves a reconnect timer pending while the engine runs.
LossStartsTimer ==
    [][\A c \in Conns :
          (recvT[c].pc = "hd_cb" /\ recvT'[c].pc # "hd_cb" /\ eng.running
             /\ eng.reconnect_enabled)
              => \E k \in Timers : tm[k].pc = "unused" /\ tm'[k].pc = "pending"]_vars


\* stop() has returned and start() was not called since
Stopped == ~eng.running /\ mainT.pc = "idle"

\* the step creates a Stratum client and has it connect
OpensConnection == \E c \in Conns : cl'[c].created /\ ~cl[c].created

\* C36: after stop() returns and until the next start() no new Stratum
\* connection is opened, whatever the interleaving of stop() with a reconnect
\* timer that was scheduled or whose _reconnect had begun before stop() ran.
NoConnectionOpenedWhileStopped ==
    [][(Stopped /\ ~eng'.running) => ~OpensConnection]_vars

\* C36 for a timer that has not fired when stop() runs: its _reconnect finds
\* the engine stopped and opens nothing.
PendingTimerOpensNothingWhileStopped ==
    [][\A k \in Timers :
          (tm[k].pc = "pending" /\ ~eng.running /\ ~eng'.running /\ tm'[k] # tm[k])
              => (tm'[k].pc = "done" /\ ~OpensConnection)]_vars


\* the mining threads that are alive, of whatever spawn
LiveWorkers == {w \in Workers : IsAlive(wk[w])}

\* C37: the number of live workers never exceeds the count N chosen at the
\* spawn, and a new set of workers is spawned only when no worker of an
\* earlier spawn is alive, also after a stop() whose join timed out.
LiveWorkersAtMostSpawned ==
    /\ [](Cardinality(LiveWorkers) <= NThreads(eng))
    /\ [][Spawns => LiveWorkers = {}]_vars

\* C37 without a join that timed out: as long as every stop() has waited for
\* its workers, the live workers are those of the last spawn.
LiveWorkersAreLastSpawn ==
    [][(LiveWorkers \subseteq eng.mining_threads) =>
          (LiveWorkers' \subseteq eng'.mining_threads \/ mainT.pc = "join")]_vars


\* the kernel call of worker w returns a winner
WinnerReported(w) == wk[w].pc \in {"dispatch", "returned"} /\ wk'[w].pc = "submit"

\* the step writes one request to connection c: a mining.submit with the
\* job_id and ntime of the job worker w built its header from
WritesSubmitOf(w, c) ==
    /\ Len(lg'[c].sent) = Len(lg[c].sent) + 1
    /\ LET r == lg'[c].sent[Len(lg'[c].sent)]
       IN  /\ r.method = "mining.submit"
           /\ r.params[1] = wk[w].job.job_id
           /\ r.params[3] = wk[w].job.ntime

\* the step writes nothing to any connection but c
WritesOnlyTo(c) == \A d \in Conns \ {c} : lg'[d].sent = lg[d].sent

\* C38: the job_id and ntime of a mining.submit are those of the job the
\* winning header was built from, also when a new job or connection arrived
\* during the batch, and each winner the kernel reports gives exactly one
\* increment of shares_submitted and exactly one mining.submit on the wire.
ShareSubmittedExactlyOnce ==
    [][\A w \in Workers :
          /\ WinnerReported(w) => eng'.shares_submitted = eng.shares_submitted + 1
          /\ SubmitsShare(w) => \E c \in Conns : WritesSubmitOf(w, c) /\ WritesOnlyTo(c)]_vars

\* C38 without "exactly one on the wire": each winner gives one increment of
\* shares_submitted and at most one request, and a request that is written is
\* the mining.submit of the job the winning header was built from.
ShareSubmittedAtMostOnce ==
    [][\A w \in Workers :
          /\ WinnerReported(w) => eng'.shares_submitted = eng.shares_submitted + 1
          /\ SubmitsShare(w) =>
                \/ \A c \in Conns : lg'[c].sent = lg[c].sent
                \/ \E c \in Conns : WritesSubmitOf(w, c) /\ WritesOnlyTo(c)]_vars


\* the step writes a mining.submit to connection c
WritesSubmit(c) ==
    /\ Len(lg'[c].sent) > Len(lg[c].sent)
    /\ lg'[c].sent[Len(lg'[c].sent)].method = "mining.submit"

\* the session of the engine's client goes on through the step
SessionGoesOn ==
    /\ eng.stratum # 0 /\ eng'.stratum = eng.stratum
    /\ cl'[eng.stratum].connected

\* no mining.submit is written to a connection whose authorize has not succeeded
NoSubmitUnauthorized == [][\A c \in Conns : WritesSubmit(c) => cl[c].authorized]_vars

\* the status Auth Failed stays while the session goes on
AuthFailedStays ==
    [][(eng.status = "Auth Failed" /\ SessionGoesOn) => eng'.status = "Auth Failed"]_vars

\* C40: no mining.submit is sent on a session that is not authorized, and
\* after an authorization failure the engine status stays Auth Failed, a
\* later job not moving it to Mining, until the session ends.
SubmitsOnlyAuthorized == NoSubmitUnauthorized /\ AuthFailedStays


\* thread t is at an acquire
AtAcquire(t) == InFragment(t) /\ NextOp(t).op = "acq"

\* thread t can take its next step
CanStep(t) == InFragment(t) /\ (AtAcquire(t) => Holder(NextOp(t).lock) = {})

\* C39: no thread waits for a lock while it holds another, no callback into
\* the engine is made while the Stratum client lock is held, and the threads
\* never deadlock: as long as one of them is inside a function, one can go on.
NoLockHeldWhileWaiting ==
    /\ \A t \in LockThreads : AtAcquire(t) => lk[t].held = {}
    /\ \A t \in LockThreads :
          (InFragment(t) /\ NextOp(t).op = "cb") => "_lock" \notin lk[t].held
    /\ (\E t \in LockThreads : InFragment(t)) => \E t \in LockThreads : CanStep(t)

\* the receive thread waits for the client lock, which the worker holds,
\* while the keepalive thread, past its locked section, calls the engine
WaitsForClientLock ==
    /\ AtAcquire("recv") /\ NextOp("recv").lock = "_lock"
    /\ "_lock" \in lk["worker"].held
    /\ InFragment("keepalive") /\ NextOp("keepalive").op = "cb"

============================================================================
